---------------------------- MODULE Spec2Model ----------------------------
(***************************************************************************)
(* Seckill admission and durable order pipeline of xzdp-go.                *)
(*                                                                         *)
(* One voucher is modelled.  The relational store holds the persistent     *)
(* stock and the order table, the key-value store holds the ephemeral      *)
(* stock counter, the order set and the id counter, and the broker holds   *)
(* the three topics with one consumer-group reader each.                   *)
(***************************************************************************)
EXTENDS Integers, Sequences, FiniteSets, Bags, TLC

(***************************************************************************)
(* Bounds of the model.                                                    *)
(***************************************************************************)
MaxUser == 2
MaxBuyers == 4
MaxStock == 2
MaxCalls == 2
MaxFaults == 2
MaxReplay == 2
MaxTime == 2
MaxRetryCountArg == 70
MaxIdCallers == 2
MaxIdCalls == 3
MaxReaders == 2
MaxShopCalls == 3
MaxUpdates == 2
MaxTasks == 2
MaxBloomId == 2
MaxAdds == 2
MaxClock == 6
MaxGarbage == 1
MaxLoopFaults == 1
TicksPerSecond == 2

\* the users of the fault scenarios, and the users of the sell-out scenario
Users == 1..MaxUser
Buyers == 1..MaxBuyers
Topics == {"primary", "retry", "dlq"}

\* const maxRetryCount = 3
maxRetryCount == 3

VARIABLES
  dbStock,        \* tb_seckill_voucher.stock of the voucher
  orders,         \* tb_voucher_order: a bag of rows [id, userId]
  redisStock,     \* seckill:stock:vid:<voucherId>
  orderSet,       \* order:vid:<voucherId>
  icr,            \* icr:order:<date>, the counter behind NextId
  topic,          \* the three Kafka topics, each an append-only log
  readPos,        \* per reader: number of messages fetched since (re)join
  committed,      \* per reader: committed group offset
  failCount,      \* FORCE_SECKILL_FAIL_COUNT (-1 when unset)
  failOnce,       \* FORCE_SECKILL_FAIL_ONCE == "1"
  calls,          \* per user: number of Seckill calls started
  admitted,       \* history: [orderId, userId] of every Seckill call that returned success
  lost,           \* history: orderIds whose publish to the primary topic failed
  compensations,  \* history: per orderId, how often compensateRedis ran
  lastTx,         \* history: the last createOrderTx call and its result
  faults,         \* broker faults so far: failed writes, failed commits, rejoins
  replays,        \* runs of replay_dlq.sh so far
  initStock,      \* the stock both stores were seeded with
  lastCall        \* history: what the last Seckill call read and how it ended

VARIABLES
  fnIn,           \* the arguments a function under test is applied to
  fnOut           \* what it returned

fnVars == <<fnIn, fnOut>>

VARIABLES
  idNow,          \* the clock: the index of the current instant
  idKeys,         \* icr:<prefix>:<date>, per date; Zero64 when the key is missing
  idTtl,          \* per date: the key carries a time to live
  idPc,           \* per caller of NextId: where it is and the instant it read
  idLog           \* history: every finished NextId call, in order of return

idVars == <<idNow, idKeys, idTtl, idPc, idLog>>

VARIABLES
  shopStore,      \* the shop's row, its L2 key, its L1 entry, its mutex key
  rd,             \* per caller of the read paths: where it is, what it holds
  upd,            \* the Update in progress, the value of the last one that returned nil,
                  \* and whether the last one returned an error
  tasks,          \* the rebuild goroutines started so far
  shopCalls,      \* read calls started so far
  bloom           \* the Bloom bitmap, the bloomAdd in progress, the ids added

shopVars == <<shopStore, rd, upd, tasks, shopCalls, bloom>>

VARIABLES
  clock,          \* time.Now(), in ticks of 1/TicksPerSecond second
  wire,           \* per topic and offset: what the message bytes hold beside
                  \* the payload kept in topic: nextRetryAt, and whether
                  \* json.Unmarshal accepts them
  loop,           \* per consumer goroutine: where it is in its iteration, the
                  \* message it holds, and how its last iteration ended
  smtpCfg         \* the mail settings the service was started with

loopVars == <<clock, wire, loop, smtpCfg>>

\* the state outside the flash-sale pipeline
outside == <<fnVars, idVars, shopVars, loopVars>>

vars == <<dbStock, orders, redisStock, orderSet, icr, topic, readPos,
          committed, failCount, failOnce, calls, admitted, lost,
          compensations, lastTx, faults, replays, initStock, lastCall,
          outside>>

seckillVars == <<dbStock, orders, redisStock, orderSet, icr, topic, readPos,
                 committed, failCount, failOnce, calls, admitted, lost,
                 compensations, lastTx, faults, replays, initStock, lastCall>>

\* what the runs of one component leave alone
exceptFn == <<seckillVars, idVars, shopVars, loopVars>>

exceptId == <<seckillVars, fnVars, shopVars, loopVars>>

exceptShop == <<seckillVars, fnVars, idVars, loopVars>>

exceptLoop == <<fnVars, idVars, shopVars>>

\* every value NextId can return within the bounds
OrderIds == 1..(MaxCalls + MaxBuyers)

NoTx == [orderId |-> 0, dbOk |-> TRUE, hadRow |-> FALSE, err |-> "none"]

NoCall == [read |-> "none", status |-> 0, now |-> 0, beginTime |-> 0,
           endTime |-> 0, stockLeft |-> FALSE, err |-> "none",
           script |-> FALSE]

NoFn == [fn |-> "none"]

\* a consumer goroutine at the top of its for loop, nothing handled yet
IdleLoop == [pc |-> "fetch", pos |-> 0, wake |-> 0, unhanded |-> {},
             last |-> "none", commit |-> "none", mail |-> "none"]

\* SMTPConfig: Host is set, and all of Host, Port, User, Pass, To are set
NoSmtp == [Host |-> FALSE, complete |-> FALSE]

SmtpConfigs == {NoSmtp, [Host |-> TRUE, complete |-> FALSE],
                [Host |-> TRUE, complete |-> TRUE]}

\* var payload orderMessage, before json.Unmarshal has filled it
ZeroMessage == [orderId |-> 0, userId |-> 0, retryCount |-> 0]

----------------------------------------------------------------------------
(***************************************************************************)
(* seckill.lua: one atomic execution at the key-value store.               *)
(***************************************************************************)
\* Faulty variants of the script: without the stock check, and without the
\* membership check.
seckillLuaNoStockCheck(stock, set, userId) ==
  IF userId \in set
    THEN [res |-> 2, stock |-> stock, set |-> set]
  ELSE [res |-> 0, stock |-> stock - 1, set |-> set \cup {userId}]

seckillLuaNoMemberCheck(stock, set, userId) ==
  IF stock <= 0
    THEN [res |-> 1, stock |-> stock, set |-> set]
  ELSE [res |-> 0, stock |-> stock - 1, set |-> set \cup {userId}]

seckillLua(stock, set, userId) ==
  IF stock <= 0
    THEN [res |-> 1, stock |-> stock, set |-> set]
  ELSE IF userId \in set
    THEN [res |-> 2, stock |-> stock, set |-> set]
  ELSE [res |-> 0, stock |-> stock - 1, set |-> set \cup {userId}]

(***************************************************************************)
(* The rows of the order table with a given primary key.                   *)
(***************************************************************************)
RowsOf(tbl, id) == {r \in BagToSet(tbl) : r.id = id}

isDuplicateKey(tbl, id) == RowsOf(tbl, id) # {}

(***************************************************************************)
(* createOrderTx: one transaction on the relational store.  dbOk = FALSE   *)
(* is a store error (connection lost, deadlock): the transaction rolls     *)
(* back.  The result carries the error and the store's new contents.       *)
(***************************************************************************)
\* Faulty variants of createOrderTx: an unconditional decrement, a duplicate
\* key returned as an error, a duplicate key that still decrements, and no
\* decrement at all.
createOrderTxUnguarded(payload, dbOk, tbl, stock) ==
  IF ~dbOk
    THEN [err |-> "dbError", orders |-> tbl, dbStock |-> stock]
  ELSE IF isDuplicateKey(tbl, payload.orderId)
    THEN [err |-> "nil", orders |-> tbl, dbStock |-> stock]
  ELSE [err |-> "nil",
        orders |-> tbl (+) SetToBag({[id |-> payload.orderId, userId |-> payload.userId]}),
        dbStock |-> stock - 1]

createOrderTxDuplicateFails(payload, dbOk, tbl, stock) ==
  IF ~dbOk
    THEN [err |-> "dbError", orders |-> tbl, dbStock |-> stock]
  ELSE IF isDuplicateKey(tbl, payload.orderId)
    THEN [err |-> "duplicateKey", orders |-> tbl, dbStock |-> stock]
  ELSE IF stock > 0
    THEN [err |-> "nil",
          orders |-> tbl (+) SetToBag({[id |-> payload.orderId, userId |-> payload.userId]}),
          dbStock |-> stock - 1]
  ELSE [err |-> "errDBStockNotEnough", orders |-> tbl, dbStock |-> stock]

createOrderTxDuplicateDecrements(payload, dbOk, tbl, stock) ==
  IF ~dbOk
    THEN [err |-> "dbError", orders |-> tbl, dbStock |-> stock]
  ELSE IF isDuplicateKey(tbl, payload.orderId)
    THEN IF stock > 0
           THEN [err |-> "nil", orders |-> tbl, dbStock |-> stock - 1]
           ELSE [err |-> "errDBStockNotEnough", orders |-> tbl, dbStock |-> stock]
  ELSE IF stock > 0
    THEN [err |-> "nil",
          orders |-> tbl (+) SetToBag({[id |-> payload.orderId, userId |-> payload.userId]}),
          dbStock |-> stock - 1]
  ELSE [err |-> "errDBStockNotEnough", orders |-> tbl, dbStock |-> stock]

createOrderTxNoDecrement(payload, dbOk, tbl, stock) ==
  IF ~dbOk
    THEN [err |-> "dbError", orders |-> tbl, dbStock |-> stock]
  ELSE IF isDuplicateKey(tbl, payload.orderId)
    THEN [err |-> "nil", orders |-> tbl, dbStock |-> stock]
  ELSE [err |-> "nil",
        orders |-> tbl (+) SetToBag({[id |-> payload.orderId, userId |-> payload.userId]}),
        dbStock |-> stock]

createOrderTx(payload, dbOk, tbl, stock) ==
  IF ~dbOk
    THEN [err |-> "dbError", orders |-> tbl, dbStock |-> stock]
  ELSE IF isDuplicateKey(tbl, payload.orderId)
    THEN [err |-> "nil", orders |-> tbl, dbStock |-> stock]
  ELSE IF stock > 0
    THEN [err |-> "nil",
          orders |-> tbl (+) SetToBag({[id |-> payload.orderId, userId |-> payload.userId]}),
          dbStock |-> stock - 1]
  ELSE [err |-> "errDBStockNotEnough", orders |-> tbl, dbStock |-> stock]

\* Faulty variant of isRetryableErr: every error is retried.
isRetryableErrAlways(err) == TRUE

isRetryableErr(err) == err # "errDBStockNotEnough"

(***************************************************************************)
(* compensateRedis: INCR of the stock key and SREM of the user, applied to *)
(* a record s of the mutable stores.                                       *)
(***************************************************************************)
compensateRedis(payload, s) ==
  [s EXCEPT !.redisStock = @ + 1,
            !.orderSet = @ \ {payload.userId},
            !.compensations[payload.orderId] = @ + 1]

\* Faulty variant of publishRetryOrDLQ: retryCount < maxRetryCount.
publishRetryOrDLQStrictLimit(payload, err, pubOk, s) ==
  IF ~isRetryableErr(err)
    THEN [ret |-> "errRetryEnqueued", wrote |-> FALSE,
          s |-> compensateRedis(payload, s)]
  ELSE
    LET next == [payload EXCEPT !.retryCount = @ + 1] IN
    IF next.retryCount < maxRetryCount
      THEN IF pubOk
             THEN [ret |-> "errRetryEnqueued", wrote |-> TRUE,
                   s |-> [s EXCEPT !.topic["retry"] = Append(@, next)]]
             ELSE [ret |-> "writeError", wrote |-> TRUE, s |-> s]
      ELSE
        LET c == compensateRedis(next, s) IN
        IF pubOk
          THEN [ret |-> "errRetryEnqueued", wrote |-> TRUE,
                s |-> [c EXCEPT !.topic["dlq"] = Append(@, next)]]
          ELSE [ret |-> "writeError", wrote |-> TRUE, s |-> c]

\* Faulty variant of publishRetryOrDLQ: dead-lettering without compensation.
publishRetryOrDLQNoCompensation(payload, err, pubOk, s) ==
  IF ~isRetryableErr(err)
    THEN [ret |-> "errRetryEnqueued", wrote |-> FALSE,
          s |-> compensateRedis(payload, s)]
  ELSE
    LET next == [payload EXCEPT !.retryCount = @ + 1] IN
    IF next.retryCount <= maxRetryCount
      THEN IF pubOk
             THEN [ret |-> "errRetryEnqueued", wrote |-> TRUE,
                   s |-> [s EXCEPT !.topic["retry"] = Append(@, next)]]
             ELSE [ret |-> "writeError", wrote |-> TRUE, s |-> s]
      ELSE
        IF pubOk
          THEN [ret |-> "errRetryEnqueued", wrote |-> TRUE,
                s |-> [s EXCEPT !.topic["dlq"] = Append(@, next)]]
          ELSE [ret |-> "writeError", wrote |-> TRUE, s |-> s]

(***************************************************************************)
(* publishRetryOrDLQ: returns the error handed back to the consumer loop   *)
(* and the stores after the call.  pubOk = FALSE is a failed WriteMessages.*)
(***************************************************************************)
publishRetryOrDLQ(payload, err, pubOk, s) ==
  IF ~isRetryableErr(err)
    THEN [ret |-> "errRetryEnqueued", wrote |-> FALSE,
          s |-> compensateRedis(payload, s)]
  ELSE
    LET next == [payload EXCEPT !.retryCount = @ + 1] IN
    IF next.retryCount <= maxRetryCount
      THEN IF pubOk
             THEN [ret |-> "errRetryEnqueued", wrote |-> TRUE,
                   s |-> [s EXCEPT !.topic["retry"] = Append(@, next)]]
             ELSE [ret |-> "writeError", wrote |-> TRUE, s |-> s]
      ELSE
        LET c == compensateRedis(next, s) IN
        IF pubOk
          THEN [ret |-> "errRetryEnqueued", wrote |-> TRUE,
                s |-> [c EXCEPT !.topic["dlq"] = Append(@, next)]]
          ELSE [ret |-> "writeError", wrote |-> TRUE, s |-> c]

(***************************************************************************)
(* handleConsume: the forced-failure toggles, then createOrderTx, then the *)
(* hand-off on failure.                                                    *)
(***************************************************************************)
handleConsume(payload, dbOk, pubOk, s) ==
  IF payload.retryCount = 0 /\ failOnce
    THEN publishRetryOrDLQ(payload, "forced", pubOk, s)
  ELSE IF failCount >= 0 /\ payload.retryCount < failCount
    THEN publishRetryOrDLQ(payload, "forced", pubOk, s)
  ELSE
    LET tx == createOrderTx(payload, dbOk, s.orders, s.dbStock)
        t  == [s EXCEPT !.orders = tx.orders,
                        !.dbStock = tx.dbStock,
                        !.lastTx = [orderId |-> payload.orderId,
                                    dbOk |-> dbOk,
                                    hadRow |-> isDuplicateKey(s.orders, payload.orderId),
                                    err |-> tx.err]]
    IN IF tx.err # "nil"
         THEN publishRetryOrDLQ(payload, tx.err, pubOk, t)
         ELSE [ret |-> "nil", wrote |-> FALSE, s |-> t]

\* the forced-failure toggles apply to the message
Forced(m) ==
  \/ m.retryCount = 0 /\ failOnce
  \/ failCount >= 0 /\ m.retryCount < failCount

Stores ==
  [orders |-> orders, dbStock |-> dbStock, redisStock |-> redisStock,
   orderSet |-> orderSet, topic |-> topic, compensations |-> compensations,
   lastTx |-> lastTx]

SetStores(s) ==
  /\ orders' = s.orders
  /\ dbStock' = s.dbStock
  /\ redisStock' = s.redisStock
  /\ orderSet' = s.orderSet
  /\ topic' = s.topic
  /\ compensations' = s.compensations
  /\ lastTx' = s.lastTx

----------------------------------------------------------------------------
(***************************************************************************)
(* An int64 (a time.Duration in nanoseconds, a timestamp, a counter, an    *)
(* id), kept as its four 16-bit words <<w3, w2, w1, w0>> in two's          *)
(* complement, most significant first, so that the arithmetic wraps where  *)
(* the machine's does.                                                     *)
(***************************************************************************)
Word == 2^16

Zero64 == <<0, 0, 0, 0>>

\* d * k modulo 2^64, for 0 <= k <= 2^15
MulSmall64(d, k) ==
  LET x0 == d[4] * k
      x1 == d[3] * k + x0 \div Word
      x2 == d[2] * k + x1 \div Word
      x3 == d[1] * k + x2 \div Word
  IN <<x3 % Word, x2 % Word, x1 % Word, x0 % Word>>

\* d << 16*k modulo 2^64
ShlWords(d, k) == [i \in 1..4 |-> IF i + k <= 4 THEN d[i + k] ELSE 0]

\* d << n modulo 2^64, for 0 <= n < 64
Shl64(d, n) == MulSmall64(ShlWords(d, n \div 16), 2^(n % 16))

\* the sign bit of an int64
Neg64(d) == d[1] >= Word \div 2

\* a > b as int64
Gt64(a, b) ==
  IF Neg64(a) # Neg64(b) THEN Neg64(b)
  ELSE \E i \in 1..4 : a[i] > b[i] /\ \A j \in 1..(i - 1) : a[j] = b[j]

One64 == <<0, 0, 0, 1>>

MinusOne64 == <<Word - 1, Word - 1, Word - 1, Word - 1>>

\* a + b modulo 2^64
Add64(a, b) ==
  LET x0 == a[4] + b[4]
      x1 == a[3] + b[3] + x0 \div Word
      x2 == a[2] + b[2] + x1 \div Word
      x3 == a[1] + b[1] + x2 \div Word
  IN <<x3 % Word, x2 % Word, x1 % Word, x0 % Word>>

\* x | y on one word
RECURSIVE OrWord(_, _)
OrWord(x, y) ==
  IF x = 0 THEN y
  ELSE IF y = 0 THEN x
  ELSE (IF x % 2 = 1 \/ y % 2 = 1 THEN 1 ELSE 0)
       + 2 * OrWord(x \div 2, y \div 2)

\* a | b
Or64(a, b) == [i \in 1..4 |-> OrWord(a[i], b[i])]

----------------------------------------------------------------------------
(***************************************************************************)
(* RedisIdWorker.                                                          *)
(***************************************************************************)
\* maxTimestamp = (1 << 31) - 1, maxSequence = (1 << 32) - 1
maxTimestamp == Add64(Shl64(One64, 31), MinusOne64)

maxSequence == Add64(Shl64(One64, 32), MinusOne64)

(***************************************************************************)
(* The instants the clock passes through, in order: ts is                  *)
(* now.Unix() - beginTimestamp, date the day of now.Format("2006:01:02").  *)
(* One second before the epoch, its first two seconds, and the last second *)
(* that fits 31 bits and the one after, decades later.                     *)
(***************************************************************************)
Instants ==
  << [ts |-> MinusOne64, date |-> 0],
     [ts |-> Zero64, date |-> 1],
     [ts |-> One64, date |-> 1],
     [ts |-> maxTimestamp, date |-> 3],
     [ts |-> Add64(maxTimestamp, One64), date |-> 3] >>

Dates == {Instants[i].date : i \in 1..Len(Instants)}

IdCallers == 1..MaxIdCallers

\* the counter values a day's key may already hold when the runs start
StartCounts == {Zero64, Add64(maxSequence, MinusOne64)}

NoId == Zero64

\* Faulty variants of NextId: the counter is read but the increment is not
\* stored, and the counter is not checked against maxSequence.
nextIdIncrNotStored(at, keys, ttl, incr, expire) ==
  LET timestamp == at.ts
      count == Add64(keys[at.date], One64)
      fail(e, ks, c) == [err |-> e, id |-> NoId, count |-> c, keys |-> ks,
                         ttl |-> ttl]
  IN IF Neg64(timestamp) THEN fail("beforeEpoch", keys, Zero64)
     ELSE IF Gt64(timestamp, maxTimestamp) THEN fail("timestampOverflow", keys, Zero64)
     ELSE IF incr = "err" THEN fail("incr", keys, Zero64)
     ELSE IF incr = "lost" THEN fail("incr", keys, Zero64)
     ELSE IF count = One64 /\ expire = "err" THEN fail("expire", keys, count)
     ELSE IF count = One64 /\ expire = "notSet" THEN fail("expireNotSet", keys, count)
     ELSE IF Gt64(count, maxSequence) THEN fail("sequenceOverflow", keys, count)
     ELSE [err |-> "nil", id |-> Or64(Shl64(timestamp, 32), count),
           count |-> count, keys |-> keys,
           ttl |-> IF count = One64 THEN [ttl EXCEPT ![at.date] = TRUE] ELSE ttl]

nextIdNoSequenceCheck(at, keys, ttl, incr, expire) ==
  LET timestamp == at.ts
      count == Add64(keys[at.date], One64)
      stored == [keys EXCEPT ![at.date] = count]
      fail(e, ks, c) == [err |-> e, id |-> NoId, count |-> c, keys |-> ks,
                         ttl |-> ttl]
  IN IF Neg64(timestamp) THEN fail("beforeEpoch", keys, Zero64)
     ELSE IF Gt64(timestamp, maxTimestamp) THEN fail("timestampOverflow", keys, Zero64)
     ELSE IF incr = "err" THEN fail("incr", keys, Zero64)
     ELSE IF incr = "lost" THEN fail("incr", stored, Zero64)
     ELSE IF count = One64 /\ expire = "err" THEN fail("expire", stored, count)
     ELSE IF count = One64 /\ expire = "notSet" THEN fail("expireNotSet", stored, count)
     ELSE [err |-> "nil", id |-> Or64(Shl64(timestamp, 32), count),
           count |-> count, keys |-> stored,
           ttl |-> IF count = One64 THEN [ttl EXCEPT ![at.date] = TRUE] ELSE ttl]

(***************************************************************************)
(* NextId from the instant at that the call read as now.  incr is the      *)
(* outcome of INCR ("err": failed and not applied, "lost": applied but the *)
(* reply was lost), expire the outcome of EXPIRE ("notSet": it returned    *)
(* false).  The result carries the error, the id, the counter value the    *)
(* call obtained (zero when it obtained none) and the store afterwards.    *)
(***************************************************************************)
nextId(at, keys, ttl, incr, expire) ==
  LET timestamp == at.ts
      count == Add64(keys[at.date], One64)
      stored == [keys EXCEPT ![at.date] = count]
      fail(e, ks, c) == [err |-> e, id |-> NoId, count |-> c, keys |-> ks,
                         ttl |-> ttl]
  IN IF Neg64(timestamp) THEN fail("beforeEpoch", keys, Zero64)
     ELSE IF Gt64(timestamp, maxTimestamp) THEN fail("timestampOverflow", keys, Zero64)
     ELSE IF incr = "err" THEN fail("incr", keys, Zero64)
     ELSE IF incr = "lost" THEN fail("incr", stored, Zero64)
     ELSE IF count = One64 /\ expire = "err" THEN fail("expire", stored, count)
     ELSE IF count = One64 /\ expire = "notSet" THEN fail("expireNotSet", stored, count)
     ELSE IF Gt64(count, maxSequence) THEN fail("sequenceOverflow", stored, count)
     ELSE [err |-> "nil", id |-> Or64(Shl64(timestamp, 32), count),
           count |-> count, keys |-> stored,
           ttl |-> IF count = One64 THEN [ttl EXCEPT ![at.date] = TRUE] ELSE ttl]

IdIdle ==
  /\ idNow = 1
  /\ idKeys = [d \in Dates |-> Zero64]
  /\ idTtl = [d \in Dates |-> FALSE]
  /\ idPc = [c \in IdCallers |-> 0]
  /\ idLog = <<>>

\* the worker starts at any instant; the key of that day may be in use
IdStart ==
  /\ idNow \in 1..Len(Instants)
  /\ \E c \in StartCounts :
       /\ idKeys = [d \in Dates |-> IF d = Instants[idNow].date THEN c ELSE Zero64]
       /\ idTtl = [d \in Dates |-> d = Instants[idNow].date /\ c # Zero64]
  /\ idPc = [c \in IdCallers |-> 0]
  /\ idLog = <<>>

\* the calls started and not yet returned, plus those returned
IdCalls == Len(idLog) + Cardinality({c \in IdCallers : idPc[c] # 0})

\* now := time.Now()
NextIdNow(c) ==
  /\ idPc[c] = 0
  /\ idPc' = [idPc EXCEPT ![c] = idNow]
  /\ UNCHANGED <<idNow, idKeys, idTtl, idLog, exceptId>>

\* the rest of NextId, from the timestamp to the return
NextIdReturn(c, incr, expire) ==
  /\ idPc[c] # 0
  /\ LET at == Instants[idPc[c]]
         calls1st == Add64(idKeys[at.date], One64) = One64
         r == nextId(at, idKeys, idTtl, incr, expire)
     IN /\ (expire # "ok") => (incr = "ok" /\ calls1st /\ r.err \in {"expire", "expireNotSet"})
        /\ idKeys' = r.keys
        /\ idTtl' = r.ttl
        /\ idLog' = Append(idLog, [caller |-> c, ts |-> at.ts, date |-> at.date,
                                   expire |-> expire,
                                   err |-> r.err, id |-> r.id,
                                   count |-> r.count])
  /\ idPc' = [idPc EXCEPT ![c] = 0]
  /\ UNCHANGED <<idNow, exceptId>>

\* time passes
ClockAdvance ==
  /\ idNow < Len(Instants)
  /\ idNow' = idNow + 1
  /\ UNCHANGED <<idKeys, idTtl, idPc, idLog, exceptId>>

(***************************************************************************)
(* A key with a time to live (keyTTL = 48 hours) is gone two days after    *)
(* its first INCR.  A call returns within the day it started, so no caller *)
(* still holds an instant of that day.                                     *)
(***************************************************************************)
KeyExpire(d) ==
  /\ idTtl[d]
  /\ Instants[idNow].date >= d + 2
  /\ \A c \in IdCallers : idPc[c] # 0 => Instants[idPc[c]].date # d
  /\ idKeys' = [idKeys EXCEPT ![d] = Zero64]
  /\ idTtl' = [idTtl EXCEPT ![d] = FALSE]
  /\ UNCHANGED <<idNow, idPc, idLog, exceptId>>

NextIdWorker ==
  \/ \E c \in IdCallers : IdCalls < MaxIdCalls /\ NextIdNow(c)
  \/ \E c \in IdCallers, incr \in {"ok", "err", "lost"},
        expire \in {"ok", "err", "notSet"} : NextIdReturn(c, incr, expire)
  \/ ClockAdvance
  \/ \E d \in Dates : KeyExpire(d)

----------------------------------------------------------------------------
(***************************************************************************)
(* ShopService: the shop with one id behind its two cache levels.  A shop  *)
(* value is the number of the update that produced it (1 for the row as    *)
(* created); 0 stands for no row, no cache entry, or no value read yet.    *)
(***************************************************************************)
NoShop == 0

ShopId == 1

\* the L2 key cache:shop:<id>: missing, a shop as JSON, or a RedisData
\* envelope with its logical expiry (fresh: ExpireTime is after now)
NoKey == [kind |-> "none", data |-> NoShop, fresh |-> FALSE]

plainKey(v) == [kind |-> "plain", data |-> v, fresh |-> FALSE]

\* the empty string under the key: the marker of a missing row that the
\* first copy of the service writes
emptyKey == [kind |-> "empty", data |-> NoShop, fresh |-> FALSE]

saveShopWithLogicalExpire(v) == [kind |-> "envelope", data |-> v, fresh |-> TRUE]

\* model.Shop{}: what json.Unmarshal leaves of a shop when the text is an
\* object with none of the shop's fields
ZeroShop == -4

\* json.Unmarshal of the text under the key into a model.Shop
unmarshalShop(key) == IF key.kind = "plain" THEN key.data ELSE ZeroShop

\* json.Unmarshal of the text under the key into a utils.RedisData, Data
\* turned into a shop, and ExpireTime.After(time.Now()); raw shop JSON has
\* neither field, which leaves the zero time and a nil Data
unmarshalRedisData(key) ==
  IF key.kind = "envelope" THEN [data |-> key.data, fresh |-> key.fresh]
  ELSE [data |-> ZeroShop, fresh |-> FALSE]

\* what a read notes of the key it parsed: "l2", and "foreign" when the
\* text was written in the format of the other flow
parsedAs(key, kind) == IF key.kind = kind THEN {"l2"} ELSE {"l2", "foreign"}

\* the task whose SetNX created the mutex key that exists now: a caller of
\* GetByID (its number), a rebuild goroutine, or nobody; history, the key
\* itself holds "1" for every task
NoHolder == 0

taskHolder(i) == 0 - i

\* what a call returns when it returns no shop
NotFound == -1

NoRet == -2

\* what a call returns when it returns an error other than not-found
Failed == -3

ReaderIds == 1..MaxReaders

BloomIds == 1..MaxBloomId

\* a caller that is not inside a call
IdleReader ==
  [mode |-> "none", id |-> ShopId, pc |-> "idle", k |-> 0, v |-> NoShop,
   floor |-> NoShop, maybe |-> "none", added |-> FALSE, expired |-> FALSE,
   afterWrite |-> FALSE, touched |-> {}, ret |-> NoRet]

(***************************************************************************)
(* bloomOffsets: FNV-1a (32 bit) of the decimal digits of id, plus each    *)
(* seed modulo 2^32, modulo shopBloomSize.                                 *)
(***************************************************************************)
shopBloomSize == 2^20

shopBloomSeeds == <<17, 29, 37>>

\* strconv.FormatInt(id, 10) as bytes, for id >= 0
RECURSIVE FormatInt(_)
FormatInt(id) ==
  IF id < 10 THEN <<48 + id>>
  ELSE Append(FormatInt(id \div 10), 48 + (id % 10))

\* x ^ y on one word
RECURSIVE XorWord(_, _)
XorWord(x, y) ==
  IF x = 0 THEN y
  ELSE IF y = 0 THEN x
  ELSE (IF x % 2 # y % 2 THEN 1 ELSE 0) + 2 * XorWord(x \div 2, y \div 2)

\* the low 32 bits of an int64
Trunc32(d) == <<0, 0, d[3], d[4]>>

\* hash/fnv New32a: offset basis 2166136261 = 33052 * 2^16 + 40389,
\* prime 16777619 = 2^24 + 403
fnvOffset32 == <<0, 0, 33052, 40389>>

fnvMulPrime32(h) == Trunc32(Add64(Shl64(h, 24), MulSmall64(h, 403)))

RECURSIVE fnv32a(_, _)
fnv32a(h, bytes) ==
  IF bytes = <<>> THEN h
  ELSE fnv32a(fnvMulPrime32(<<0, 0, h[3], XorWord(h[4], Head(bytes))>>),
              Tail(bytes))

bloomOffsets(id) ==
  [i \in 1..Len(shopBloomSeeds) |->
     LET sum == Trunc32(Add64(fnv32a(fnvOffset32, FormatInt(id)),
                              <<0, 0, 0, shopBloomSeeds[i]>>))
     IN (sum[3] % (shopBloomSize \div Word)) * Word + sum[4]]

\* Faulty variant of SETBIT key off 1: the bit is flipped.
setBitFlips(bits, off) == IF off \in bits THEN bits \ {off} ELSE bits \cup {off}

\* SETBIT key off 1 and GETBIT key off on the bitmap, kept as the set of
\* the offsets of its 1 bits
setBit(bits, off) == bits \cup {off}

getBit(bits, off) == IF off \in bits THEN 1 ELSE 0

\* Faulty variant of the decision of GetByIDWithBloom: it always goes on.
bloomRejectsNever(maybe) == FALSE

\* GetByIDWithBloom: if !maybe { return nil, nil }
bloomRejects(maybe) == ~maybe

\* a rebuild has written its envelope
Written == \E i \in 1..Len(tasks) : tasks[i].wrote

\* a caller may start a call
CanCall(r) == rd[r].pc \in {"idle", "done"} /\ shopCalls < MaxShopCalls

\* the caller's record at the start of a call
Enter(mode, id) ==
  [IdleReader EXCEPT !.mode = mode, !.id = id, !.floor = upd.returned,
                     !.added = id \in bloom.done, !.afterWrite = Written]

\* getLocalShop at the head of GetByID, on the caller's record c
getLocalShop(c) ==
  IF shopStore.l1 # NoShop
    THEN [c EXCEPT !.pc = "done", !.ret = shopStore.l1,
                   !.touched = @ \cup {"l1"}]
  ELSE [c EXCEPT !.pc = "get", !.touched = @ \cup {"l1"}]

(***************************************************************************)
(* GetByID, one access to a shared store per step.  The source file holds  *)
(* the service twice.  The second copy has the L1 cache and the Bloom      *)
(* filter and writes nothing for a missing row (mode "GetByID"); the first *)
(* copy has no L1 and writes the empty string for a missing row (mode      *)
(* "GetByIDSentinel").  A run uses one of the two.                         *)
(***************************************************************************)
\* the call of the first copy: straight to rdb.Get
GetByIDSentinel(r) ==
  /\ CanCall(r)
  /\ rd' = [rd EXCEPT ![r] = [Enter("GetByIDSentinel", ShopId) EXCEPT !.pc = "get"]]
  /\ shopCalls' = shopCalls + 1
  /\ UNCHANGED <<shopStore, upd, tasks, bloom, exceptShop>>

\* the call and its look into L1
GetByID(r) ==
  /\ CanCall(r)
  /\ rd' = [rd EXCEPT ![r] = getLocalShop(Enter("GetByID", ShopId))]
  /\ shopCalls' = shopCalls + 1
  /\ UNCHANGED <<shopStore, upd, tasks, bloom, exceptShop>>

\* the same look into L1 when GetByIDWithBloom calls GetByID
GetByIDFromBloom(r) ==
  /\ rd[r].pc = "l1"
  /\ rd' = [rd EXCEPT ![r] = getLocalShop(rd[r])]
  /\ UNCHANGED <<shopStore, shopCalls, upd, tasks, bloom, exceptShop>>

\* rdb.Get at the head of the loop
GetByIDGet(r) ==
  /\ rd[r].pc = "get"
  /\ rd' = [rd EXCEPT ![r] =
              IF shopStore.l2.kind \in {"plain", "envelope"}
                THEN IF rd[r].mode = "GetByIDSentinel"
                       THEN [@ EXCEPT !.pc = "done",
                                      !.v = unmarshalShop(shopStore.l2),
                                      !.ret = unmarshalShop(shopStore.l2),
                                      !.touched =
                                        @ \cup parsedAs(shopStore.l2, "plain")]
                     ELSE [@ EXCEPT !.pc = "setl1",
                                    !.v = unmarshalShop(shopStore.l2),
                                    !.touched =
                                      @ \cup parsedAs(shopStore.l2, "plain")]
              ELSE IF shopStore.l2.kind = "empty"
                THEN [@ EXCEPT !.pc = "done",
                               !.ret = IF rd[r].mode = "GetByIDSentinel"
                                         THEN NotFound ELSE Failed,
                               !.touched = @ \cup {"l2"}]
              ELSE [@ EXCEPT !.pc = "lock", !.touched = @ \cup {"l2"}]]
  /\ UNCHANGED <<shopStore, shopCalls, upd, tasks, bloom, exceptShop>>

\* setLocalShop with the value obtained; the call returns it, after the
\* unlock when it holds the mutex
GetByIDSetLocal(r) ==
  /\ rd[r].pc \in {"setl1", "setl1u"}
  /\ shopStore' = [shopStore EXCEPT !.l1 = rd[r].v]
  /\ rd' = [rd EXCEPT ![r] =
              [@ EXCEPT !.pc = IF rd[r].pc = "setl1" THEN "done" ELSE "unlock",
                        !.ret = rd[r].v, !.touched = @ \cup {"l1"}]]
  /\ UNCHANGED <<shopCalls, upd, tasks, bloom, exceptShop>>

\* tryLock: SETNX; without the lock the caller sleeps and reads L2 again
GetByIDTryLock(r) ==
  /\ rd[r].pc = "lock"
  /\ shopStore' = [shopStore EXCEPT !.lock = TRUE,
                                    !.holder = IF shopStore.lock THEN @ ELSE r]
  /\ rd' = [rd EXCEPT ![r] =
              [@ EXCEPT !.pc = IF shopStore.lock THEN "get" ELSE "dcheck",
                        !.touched = @ \cup {"lock"}]]
  /\ UNCHANGED <<shopCalls, upd, tasks, bloom, exceptShop>>

\* the second rdb.Get, under the mutex; the returns on the empty string
\* (first copy) and on a value json.Unmarshal rejects come before the unlock
GetByIDDoubleCheck(r) ==
  /\ rd[r].pc = "dcheck"
  /\ rd' = [rd EXCEPT ![r] =
              IF shopStore.l2.kind \in {"plain", "envelope"}
                THEN IF rd[r].mode = "GetByIDSentinel"
                       THEN [@ EXCEPT !.pc = "unlock",
                                      !.v = unmarshalShop(shopStore.l2),
                                      !.ret = unmarshalShop(shopStore.l2),
                                      !.touched =
                                        @ \cup parsedAs(shopStore.l2, "plain")]
                     ELSE [@ EXCEPT !.pc = "setl1u",
                                    !.v = unmarshalShop(shopStore.l2),
                                    !.touched =
                                      @ \cup parsedAs(shopStore.l2, "plain")]
              ELSE IF shopStore.l2.kind = "empty"
                THEN [@ EXCEPT !.pc = "done",
                               !.ret = IF rd[r].mode = "GetByIDSentinel"
                                         THEN NotFound ELSE Failed]
              ELSE [@ EXCEPT !.pc = "load"]]
  /\ UNCHANGED <<shopStore, shopCalls, upd, tasks, bloom, exceptShop>>

\* loadShopAndCache: db.First reads the committed row
loadShopAndCacheFirst(r) ==
  /\ rd[r].pc = "load"
  /\ rd' = [rd EXCEPT ![r] =
              IF shopStore.db = NoShop
                THEN IF rd[r].mode = "GetByIDSentinel"
                       THEN [@ EXCEPT !.pc = "setnull",
                                      !.touched = @ \cup {"db"}]
                     ELSE [@ EXCEPT !.pc = "unlock", !.ret = NotFound,
                                    !.touched = @ \cup {"db"}]
              ELSE [@ EXCEPT !.pc = "setl2", !.v = shopStore.db,
                             !.touched = @ \cup {"db"}]]
  /\ UNCHANGED <<shopStore, shopCalls, upd, tasks, bloom, exceptShop>>

\* loadShopAndCache: rdb.Set of the row read
loadShopAndCacheSet(r) ==
  /\ rd[r].pc = "setl2"
  /\ shopStore' = [shopStore EXCEPT !.l2 = plainKey(rd[r].v)]
  /\ rd' = [rd EXCEPT ![r] =
              IF rd[r].mode = "GetByIDSentinel"
                THEN [@ EXCEPT !.pc = "unlock", !.ret = rd[r].v]
              ELSE [@ EXCEPT !.pc = "setl1u"]]
  /\ UNCHANGED <<shopCalls, upd, tasks, bloom, exceptShop>>

\* loadShopAndCache of the first copy on a missing row: rdb.Set of the empty
\* string with CACHE_NULL_TTL, then "shop not found"
loadShopAndCacheSetNull(r) ==
  /\ rd[r].pc = "setnull"
  /\ shopStore' = [shopStore EXCEPT !.l2 = emptyKey]
  /\ rd' = [rd EXCEPT ![r] = [@ EXCEPT !.pc = "unlock", !.ret = NotFound,
                                       !.touched = @ \cup {"null"}]]
  /\ UNCHANGED <<shopCalls, upd, tasks, bloom, exceptShop>>

\* unlock: DEL of the mutex key, whoever holds it; the call returns
GetByIDUnlock(r) ==
  /\ rd[r].pc = "unlock"
  /\ shopStore' = [shopStore EXCEPT !.lock = FALSE, !.holder = NoHolder]
  /\ rd' = [rd EXCEPT ![r] = [@ EXCEPT !.pc = "done"]]
  /\ UNCHANGED <<shopCalls, upd, tasks, bloom, exceptShop>>

(***************************************************************************)
(* Update: inside one transaction the UPDATE of the row, then rdb.Del and  *)
(* deleteLocalShop; the transaction commits when the closure has returned. *)
(* Until then other sessions read the row as last committed.               *)
(***************************************************************************)
UpdateBegin ==
  /\ upd.pc = "idle"
  /\ shopStore.db < 1 + MaxUpdates
  /\ upd' = [upd EXCEPT !.pc = "del2",
                        !.val = IF shopStore.db = NoShop THEN NoShop
                                ELSE shopStore.db + 1,
                        !.err = FALSE]
  /\ UNCHANGED <<shopStore, rd, shopCalls, tasks, bloom, exceptShop>>

\* Faulty variant of UpdateDelRedis: the error of rdb.Del is ignored.
UpdateDelRedisIgnoresError(ok) ==
  /\ upd.pc = "del2"
  /\ shopStore' = IF ok THEN [shopStore EXCEPT !.l2 = NoKey] ELSE shopStore
  /\ upd' = [upd EXCEPT !.pc = "del1"]
  /\ UNCHANGED <<rd, shopCalls, tasks, bloom, exceptShop>>

\* rdb.Del; on an error the transaction rolls back and Update returns it
UpdateDelRedis(ok) ==
  /\ upd.pc = "del2"
  /\ IF ok
       THEN /\ shopStore' = [shopStore EXCEPT !.l2 = NoKey]
            /\ upd' = [upd EXCEPT !.pc = "del1"]
       ELSE /\ upd' = [upd EXCEPT !.pc = "idle", !.val = NoShop, !.err = TRUE]
            /\ UNCHANGED shopStore
  /\ UNCHANGED <<rd, shopCalls, tasks, bloom, exceptShop>>

UpdateDelLocal ==
  /\ upd.pc = "del1"
  /\ shopStore' = [shopStore EXCEPT !.l1 = NoShop]
  /\ upd' = [upd EXCEPT !.pc = "commit"]
  /\ UNCHANGED <<rd, shopCalls, tasks, bloom, exceptShop>>

\* the commit; Update returns nil
UpdateCommit ==
  /\ upd.pc = "commit"
  /\ shopStore' = [shopStore EXCEPT !.db = upd.val]
  /\ upd' = [pc |-> "idle", val |-> NoShop,
             returned |-> IF upd.val = NoShop THEN upd.returned ELSE upd.val,
             err |-> FALSE]
  /\ UNCHANGED <<rd, shopCalls, tasks, bloom, exceptShop>>

(***************************************************************************)
(* Time passing: the L1 entry (30 s), the L2 key (CACHE_SHOP_TTL minutes)  *)
(* and the mutex key (LOCK_SHOP_TTL seconds) expire.                       *)
(***************************************************************************)
LocalShopExpire ==
  /\ shopStore.l1 # NoShop
  /\ shopStore' = [shopStore EXCEPT !.l1 = NoShop]
  /\ UNCHANGED <<rd, upd, shopCalls, tasks, bloom, exceptShop>>

ShopKeyExpire ==
  /\ shopStore.l2.kind \in {"plain", "empty"}
  /\ shopStore' = [shopStore EXCEPT !.l2 = NoKey]
  /\ UNCHANGED <<rd, upd, shopCalls, tasks, bloom, exceptShop>>

LockExpire ==
  /\ shopStore.lock
  /\ shopStore' = [shopStore EXCEPT !.lock = FALSE, !.holder = NoHolder]
  /\ UNCHANGED <<rd, upd, shopCalls, tasks, bloom, exceptShop>>

(***************************************************************************)
(* GetByIDWithLogicalExpire and the rebuild task it starts.                *)
(***************************************************************************)
\* the call, its rdb.Get and the test of the logical expiry
GetByIDWithLogicalExpire(r) ==
  /\ CanCall(r)
  /\ LET key == shopStore.l2
         c == [Enter("LogicalExpire", ShopId) EXCEPT !.touched = {"l2"}]
         redisData == unmarshalRedisData(key)
     IN rd' = [rd EXCEPT ![r] =
                 IF key.kind \in {"none", "empty"}
                   THEN [c EXCEPT !.pc = "done", !.ret = NotFound]
                 ELSE IF redisData.fresh
                   THEN [c EXCEPT !.pc = "done", !.ret = redisData.data,
                                  !.touched = parsedAs(key, "envelope")]
                 ELSE [c EXCEPT !.pc = "lelock", !.v = redisData.data,
                                !.expired = TRUE,
                                !.touched = parsedAs(key, "envelope")]]
  /\ shopCalls' = shopCalls + 1
  /\ UNCHANGED <<shopStore, upd, tasks, bloom, exceptShop>>

\* Faulty variant of LogicalExpireTryLock: without the lock the call tries
\* again.
LogicalExpireTryLockWaits(r) ==
  /\ rd[r].pc = "lelock"
  /\ ~shopStore.lock => Len(tasks) < MaxTasks
  /\ shopStore' = [shopStore EXCEPT !.lock = TRUE,
                                    !.holder = IF shopStore.lock THEN @
                                               ELSE taskHolder(Len(tasks) + 1)]
  /\ tasks' = IF shopStore.lock THEN tasks
              ELSE Append(tasks, [pc |-> "db", v |-> NoShop, wrote |-> FALSE])
  /\ rd' = [rd EXCEPT ![r] =
              IF shopStore.lock
                THEN [@ EXCEPT !.touched = @ \cup {"lock"}]
              ELSE [@ EXCEPT !.pc = "done", !.ret = rd[r].v,
                             !.touched = @ \cup {"lock"}]]
  /\ UNCHANGED <<upd, shopCalls, bloom, exceptShop>>

\* tryLock; with the lock the call starts the rebuild goroutine; either way
\* it returns the shop it read
LogicalExpireTryLock(r) ==
  /\ rd[r].pc = "lelock"
  /\ ~shopStore.lock => Len(tasks) < MaxTasks
  /\ shopStore' = [shopStore EXCEPT !.lock = TRUE,
                                    !.holder = IF shopStore.lock THEN @
                                               ELSE taskHolder(Len(tasks) + 1)]
  /\ tasks' = IF shopStore.lock THEN tasks
              ELSE Append(tasks, [pc |-> "db", v |-> NoShop, wrote |-> FALSE])
  /\ rd' = [rd EXCEPT ![r] =
              [@ EXCEPT !.pc = "done", !.ret = rd[r].v,
                        !.touched = @ \cup {"lock"}]]
  /\ UNCHANGED <<upd, shopCalls, bloom, exceptShop>>

\* rebuildShopCacheWithLogicalExpire: db.First
rebuildFirst(i) ==
  /\ tasks[i].pc = "db"
  /\ tasks' = [tasks EXCEPT ![i] =
                 IF shopStore.db = NoShop THEN [@ EXCEPT !.pc = "unlock"]
                 ELSE [@ EXCEPT !.pc = "set", !.v = shopStore.db]]
  /\ UNCHANGED <<shopStore, rd, upd, shopCalls, bloom, exceptShop>>

\* rebuildShopCacheWithLogicalExpire: saveShopWithLogicalExpire
rebuildSave(i) ==
  /\ tasks[i].pc = "set"
  /\ shopStore' = [shopStore EXCEPT !.l2 = saveShopWithLogicalExpire(tasks[i].v)]
  /\ tasks' = [tasks EXCEPT ![i] = [@ EXCEPT !.pc = "unlock", !.wrote = TRUE]]
  /\ UNCHANGED <<rd, upd, shopCalls, bloom, exceptShop>>

\* the deferred unlock of the goroutine
rebuildUnlock(i) ==
  /\ tasks[i].pc = "unlock"
  /\ shopStore' = [shopStore EXCEPT !.lock = FALSE, !.holder = NoHolder]
  /\ tasks' = [tasks EXCEPT ![i] = [@ EXCEPT !.pc = "done"]]
  /\ UNCHANGED <<rd, upd, shopCalls, bloom, exceptShop>>

(***************************************************************************)
(* The Bloom filter.  bloomAdd queues one SETBIT per offset in a pipeline  *)
(* (not a transaction): the store executes them one by one and a broken    *)
(* connection leaves the rest undone and bloomAdd with an error.           *)
(***************************************************************************)
bloomAdd(id) ==
  /\ bloom.adder.k = 0
  /\ bloom.adds < MaxAdds
  /\ bloom' = [bloom EXCEPT !.adder = [id |-> id, k |-> 1], !.adds = @ + 1]
  /\ UNCHANGED <<shopStore, rd, upd, shopCalls, tasks, exceptShop>>

bloomAddSetBit(ok) ==
  /\ bloom.adder.k > 0
  /\ LET a == bloom.adder
         offsets == bloomOffsets(a.id)
     IN bloom' =
          IF ~ok THEN [bloom EXCEPT !.adder = [id |-> 0, k |-> 0]]
          ELSE IF a.k < Len(offsets)
            THEN [bloom EXCEPT !.bits = setBit(@, offsets[a.k]),
                               !.adder.k = @ + 1]
          ELSE [bloom EXCEPT !.bits = setBit(@, offsets[a.k]),
                             !.adder = [id |-> 0, k |-> 0],
                             !.done = @ \cup {a.id}]
  /\ UNCHANGED <<shopStore, rd, upd, shopCalls, tasks, exceptShop>>

\* one GETBIT of bloomMightContain on the caller's record c, and what its
\* caller does with the answer once there is one
bloomGetBit(c) ==
  LET offsets == bloomOffsets(c.id)
      bit == getBit(bloom.bits, offsets[c.k])
      answer(maybe) ==
        LET d == [c EXCEPT !.maybe = IF maybe THEN "yes" ELSE "no"]
        IN IF c.mode = "Bloom"
             THEN IF bloomRejects(maybe)
                    THEN [d EXCEPT !.pc = "done", !.ret = NotFound]
                  ELSE [d EXCEPT !.pc = "l1"]
           ELSE [d EXCEPT !.pc = "done"]
  IN IF bit = 0 THEN answer(FALSE)
     ELSE IF c.k = Len(offsets) THEN answer(TRUE)
     ELSE [c EXCEPT !.pc = "bloom", !.k = @ + 1]

\* a call of bloomMightContain alone, and its first GETBIT
bloomMightContain(r, id) ==
  /\ CanCall(r)
  /\ rd' = [rd EXCEPT ![r] =
              bloomGetBit([Enter("MightContain", id) EXCEPT !.k = 1])]
  /\ shopCalls' = shopCalls + 1
  /\ UNCHANGED <<shopStore, upd, tasks, bloom, exceptShop>>

\* a call of GetByIDWithBloom, and the first GETBIT of its bloomMightContain
GetByIDWithBloom(r) ==
  /\ CanCall(r)
  /\ rd' = [rd EXCEPT ![r] =
              bloomGetBit([Enter("Bloom", ShopId) EXCEPT !.k = 1])]
  /\ shopCalls' = shopCalls + 1
  /\ UNCHANGED <<shopStore, upd, tasks, bloom, exceptShop>>

\* the further GETBITs
bloomMightContainNext(r) ==
  /\ rd[r].pc = "bloom"
  /\ rd' = [rd EXCEPT ![r] = bloomGetBit(rd[r])]
  /\ UNCHANGED <<shopStore, upd, shopCalls, tasks, bloom, exceptShop>>

\* the service and its stores at rest: the row exists, the caches are cold
ShopIdle ==
  /\ shopStore = [db |-> 1, l2 |-> NoKey, l1 |-> NoShop, lock |-> FALSE,
                    holder |-> NoHolder]
  /\ rd = [r \in ReaderIds |-> IdleReader]
  /\ upd = [pc |-> "idle", val |-> NoShop, returned |-> NoShop, err |-> FALSE]
  /\ tasks = <<>>
  /\ shopCalls = 0
  /\ bloom = [bits |-> {}, adder |-> [id |-> 0, k |-> 0], done |-> {},
              adds |-> 0]

----------------------------------------------------------------------------
(***************************************************************************)
(* Initial states: reset_seckill.sh seeds the stock key and the stored     *)
(* stock with the same value, empties the order set and the order table.   *)
(***************************************************************************)
InitSeckill(S, fc, fo) ==
  /\ initStock = S
  /\ dbStock = S
  /\ redisStock = S
  /\ orders = EmptyBag
  /\ orderSet = {}
  /\ icr = 0
  /\ topic = [t \in Topics |-> <<>>]
  /\ readPos = [t \in Topics |-> 0]
  /\ committed = [t \in Topics |-> 0]
  /\ failCount = fc
  /\ failOnce = fo
  /\ calls = [u \in Buyers |-> 0]
  /\ admitted = {}
  /\ lost = {}
  /\ compensations = [o \in OrderIds |-> 0]
  /\ lastTx = NoTx
  /\ faults = 0
  /\ replays = 0
  /\ lastCall = NoCall

\* the consumers as ConsumeLoop runs them: time stands still, no goroutine
\* is inside an iteration, no mail settings
LoopIdle ==
  /\ clock = 0
  /\ wire = [t \in Topics |-> <<>>]
  /\ loop = [t \in Topics |-> IdleLoop]
  /\ smtpCfg = NoSmtp

\* no function has been applied
FnIdle ==
  /\ fnIn = NoFn
  /\ fnOut = NoFn

\* nothing has run outside the pipeline
InitOutside == FnIdle /\ IdIdle /\ ShopIdle /\ LoopIdle

InitWith(S, fc, fo) == InitSeckill(S, fc, fo) /\ InitOutside

\* the pipeline at rest, for the runs of the other components
SeckillIdle == InitSeckill(MaxStock, -1, FALSE)

Init == \E S \in 1..MaxStock : InitWith(S, -1, FALSE)

RECURSIVE SumOver(_, _)
SumOver(f, D) ==
  IF D = {} THEN 0
  ELSE LET x == CHOOSE y \in D : TRUE IN f[x] + SumOver(f, D \ {x})

TotalCalls == SumOver(calls, Buyers)

\* Faulty variant of the return of Seckill: the publish error is returned.
SeckillReturnsPublishError(res, pubOk) ==
  CASE res = 0 /\ pubOk -> "orderID"
    [] res = 0 /\ ~pubOk -> "publishError"
    [] res = 1 -> "soldOut"
    [] res = 2 -> "alreadyOrdered"
    [] OTHER -> "failed"

(***************************************************************************)
(* What Seckill returns for a script result and a publish outcome.         *)
(***************************************************************************)
SeckillReturns(res, pubOk) ==
  CASE res = 0 -> "orderID"
    [] res = 1 -> "soldOut"
    [] res = 2 -> "alreadyOrdered"
    [] OTHER -> "failed"

(***************************************************************************)
(* The checks of Seckill on the voucher it read, in the order of the code. *)
(* v is the result of the read (read = "notFound" is ErrRecordNotFound,    *)
(* "error" any other error of the store), now is time.Now().               *)
(***************************************************************************)
\* Faulty variant of the checks: the end of the sale is not checked.
seckillPrecheckNoEndCheck(v, now) ==
  IF v.read = "notFound" THEN "voucherNotFound"
  ELSE IF v.read = "error" THEN "dbError"
  ELSE IF v.status # 1 THEN "offShelf"
  ELSE IF now < v.beginTime THEN "notStarted"
  ELSE IF v.stock <= 0 THEN "stockNotEnough"
  ELSE "ok"

seckillPrecheck(v, now) ==
  IF v.read = "notFound" THEN "voucherNotFound"
  ELSE IF v.read = "error" THEN "dbError"
  ELSE IF v.status # 1 THEN "offShelf"
  ELSE IF now < v.beginTime THEN "notStarted"
  ELSE IF now > v.endTime THEN "ended"
  ELSE IF v.stock <= 0 THEN "stockNotEnough"
  ELSE "ok"

(***************************************************************************)
(* Seckill.  The call first reads the voucher; v is what that read         *)
(* returned.  Other callers and the consumers run between that read and    *)
(* the script, and the stored stock only ever decreases, so v.stock is any *)
(* value the stored stock has had up to now.  Then the checks, NextId, the *)
(* script, the publish and the return.  pubOk = FALSE is a failed          *)
(* WriteMessages.  An order id is the pair of a timestamp and the value of *)
(* the counter; the counter alone tells the ids of this model apart and    *)
(* stands for the id.                                                      *)
(***************************************************************************)
Seckill(u, v, now, pubOk) ==
  LET check == seckillPrecheck(v, now)
      call == [read |-> v.read, status |-> v.status, now |-> now,
               beginTime |-> v.beginTime, endTime |-> v.endTime,
               stockLeft |-> v.stock > 0, err |-> check, script |-> FALSE]
  IN
  /\ calls' = [calls EXCEPT ![u] = @ + 1]
  /\ IF check # "ok"
       THEN /\ pubOk
            /\ lastCall' = call
            /\ UNCHANGED <<icr, redisStock, orderSet, topic, admitted, lost,
                           faults>>
       ELSE
         LET orderID == icr + 1
             lua == seckillLua(redisStock, orderSet, u)
             msg == [orderId |-> orderID, userId |-> u, retryCount |-> 0]
         IN /\ icr' = orderID
            /\ redisStock' = lua.stock
            /\ orderSet' = lua.set
            /\ IF lua.res = 0
                 THEN IF pubOk
                        THEN /\ topic' = [topic EXCEPT !["primary"] = Append(@, msg)]
                             /\ UNCHANGED <<lost, faults>>
                        ELSE /\ faults < MaxFaults
                             /\ faults' = faults + 1
                             /\ topic' = topic
                             /\ lost' = lost \cup {orderID}
                 ELSE /\ pubOk
                      /\ UNCHANGED <<topic, lost, faults>>
            /\ admitted' = IF SeckillReturns(lua.res, pubOk) = "orderID"
                             THEN admitted \cup {[orderId |-> orderID, userId |-> u]}
                             ELSE admitted
            /\ lastCall' = [call EXCEPT !.err = SeckillReturns(lua.res, pubOk),
                                        !.script = TRUE]
  /\ UNCHANGED <<dbStock, orders, readPos, committed, failCount, failOnce,
                 compensations, lastTx, replays, initStock, outside>>

(***************************************************************************)
(* The voucher of the flash sale as Seckill reads it while the sale runs:  *)
(* on the shelf, the sale open from time 0 on, seen the stored stock.      *)
(***************************************************************************)
OnSale(seen) ==
  [read |-> "ok", status |-> 1, beginTime |-> 0, endTime |-> MaxTime,
   stock |-> seen]

(***************************************************************************)
(* One iteration of a consumer loop on reader t: FetchMessage,             *)
(* handleConsume, and CommitMessages unless the hand-off itself failed.    *)
(* commitOk = FALSE is a failed CommitMessages (logged only).              *)
(***************************************************************************)
ConsumeLoop(t, dbOk, pubOk, commitOk) ==
  /\ readPos[t] < Len(topic[t])
  /\ LET msg == topic[t][readPos[t] + 1]
         r == handleConsume(msg, dbOk, pubOk, Stores)
         commits == r.ret \in {"nil", "errRetryEnqueued"}
         fault == (r.wrote /\ ~pubOk) \/ (commits /\ ~commitOk)
     IN /\ r.wrote \/ pubOk
        /\ commits \/ commitOk
        /\ fault => faults < MaxFaults
        /\ faults' = IF fault THEN faults + 1 ELSE faults
        /\ SetStores(r.s)
        /\ readPos' = [readPos EXCEPT ![t] = @ + 1]
        /\ committed' = IF commits /\ commitOk
                          THEN [committed EXCEPT ![t] = readPos[t] + 1]
                          ELSE committed
  /\ UNCHANGED <<icr, failCount, failOnce, calls, admitted, lost, replays,
                 initStock, lastCall, outside>>

consumeOrders(dbOk, pubOk, commitOk) == ConsumeLoop("primary", dbOk, pubOk, commitOk)

consumeRetryOrders(dbOk, pubOk, commitOk) == ConsumeLoop("retry", dbOk, pubOk, commitOk)

(***************************************************************************)
(* consumeDLQ: alert (no effect on the stores) and commit.                 *)
(***************************************************************************)
consumeDLQ(commitOk) ==
  /\ readPos["dlq"] < Len(topic["dlq"])
  /\ readPos' = [readPos EXCEPT !["dlq"] = @ + 1]
  /\ ~commitOk => faults < MaxFaults
  /\ faults' = IF commitOk THEN faults ELSE faults + 1
  /\ committed' = IF commitOk
                    THEN [committed EXCEPT !["dlq"] = readPos["dlq"] + 1]
                    ELSE committed
  /\ UNCHANGED <<dbStock, orders, redisStock, orderSet, icr, topic, failCount,
                 failOnce, calls, admitted, lost, compensations,
                 lastTx, replays, initStock, lastCall, outside>>

(***************************************************************************)
(* A consumer-group reader that rejoins (rebalance, reconnect, restart)    *)
(* resumes from its committed offset: everything fetched and not committed *)
(* is delivered again.                                                     *)
(***************************************************************************)
Rebalance(t) ==
  /\ faults < MaxFaults
  /\ readPos[t] > committed[t]
  /\ readPos' = [readPos EXCEPT ![t] = committed[t]]
  /\ faults' = faults + 1
  /\ UNCHANGED <<dbStock, orders, redisStock, orderSet, icr, topic, committed,
                 failCount, failOnce, calls, admitted, lost,
                 compensations, lastTx, replays, initStock, lastCall, outside>>

Next ==
  \/ \E u \in Users, seen \in dbStock..initStock, pubOk \in BOOLEAN :
       TotalCalls < MaxCalls /\ Seckill(u, OnSale(seen), 0, pubOk)
  \/ \E dbOk, pubOk, commitOk \in BOOLEAN : consumeOrders(dbOk, pubOk, commitOk)
  \/ \E dbOk, pubOk, commitOk \in BOOLEAN : consumeRetryOrders(dbOk, pubOk, commitOk)
  \/ \E commitOk \in BOOLEAN : consumeDLQ(commitOk)
  \/ \E t \in Topics : Rebalance(t)

Spec == Init /\ [][Next]_vars

----------------------------------------------------------------------------
(***************************************************************************)
(* The forced-failure runs: the server is started with                     *)
(* FORCE_SECKILL_FAIL_COUNT set to 3 or to 4 (maxRetryCount and one more), *)
(* with or without FORCE_SECKILL_FAIL_ONCE, and the stores and the broker  *)
(* work.  The three consumers are goroutines that loop for ever, so each   *)
(* takes its step when a message waits for it.                             *)
(***************************************************************************)
FailCounts == {maxRetryCount, maxRetryCount + 1}

InitForced ==
  \E S \in 1..MaxStock, fc \in FailCounts, fo \in BOOLEAN : InitWith(S, fc, fo)

NextForced ==
  \/ \E u \in Users, seen \in dbStock..initStock :
       TotalCalls < MaxCalls /\ Seckill(u, OnSale(seen), 0, TRUE)
  \/ consumeOrders(TRUE, TRUE, TRUE)
  \/ consumeRetryOrders(TRUE, TRUE, TRUE)
  \/ consumeDLQ(TRUE)

SpecForced ==
  /\ InitForced
  /\ [][NextForced]_vars
  /\ WF_vars(consumeOrders(TRUE, TRUE, TRUE))
  /\ WF_vars(consumeRetryOrders(TRUE, TRUE, TRUE))
  /\ WF_vars(consumeDLQ(TRUE))

(***************************************************************************)
(* replay_dlq.sh: the operator copies the payload of a dead-lettered       *)
(* message, the script produces it to the primary topic, then DECRs the    *)
(* stock key and SADDs the user to the order set.                          *)
(***************************************************************************)
Replay(i) ==
  /\ replays < MaxReplay
  /\ i \in 1..Len(topic["dlq"])
  /\ LET payload == topic["dlq"][i]
     IN /\ topic' = [topic EXCEPT !["primary"] = Append(@, payload)]
        /\ redisStock' = redisStock - 1
        /\ orderSet' = orderSet \cup {payload.userId}
  /\ replays' = replays + 1
  /\ UNCHANGED <<dbStock, orders, icr, readPos, committed, failCount,
                 failOnce, calls, admitted, lost, compensations, lastTx,
                 faults, initStock, lastCall, outside>>

(***************************************************************************)
(* The runs with replay: the relational store may fail any transaction,    *)
(* or the server runs with FORCE_SECKILL_FAIL_COUNT=4; the broker works.   *)
(***************************************************************************)
InitReplay ==
  \E S \in 1..MaxStock, fc \in {-1, maxRetryCount + 1} : InitWith(S, fc, FALSE)

NextReplay ==
  \/ \E u \in Users, seen \in dbStock..initStock :
       TotalCalls < MaxCalls /\ Seckill(u, OnSale(seen), 0, TRUE)
  \/ \E dbOk \in BOOLEAN : consumeOrders(dbOk, TRUE, TRUE)
  \/ \E dbOk \in BOOLEAN : consumeRetryOrders(dbOk, TRUE, TRUE)
  \/ consumeDLQ(TRUE)
  \/ \E i \in 1..Len(topic["dlq"]) : Replay(i)

SpecReplay == InitReplay /\ [][NextReplay]_vars

(***************************************************************************)
(* The sell-out runs: every user calls Seckill at most once, nothing       *)
(* fails, and the consumer of the primary topic keeps running.             *)
(***************************************************************************)
NextSellOut ==
  \/ \E u \in Buyers, seen \in dbStock..initStock :
       calls[u] = 0 /\ Seckill(u, OnSale(seen), 0, TRUE)
  \/ consumeOrders(TRUE, TRUE, TRUE)

SpecSellOut ==
  /\ Init
  /\ [][NextSellOut]_vars
  /\ WF_vars(consumeOrders(TRUE, TRUE, TRUE))

(***************************************************************************)
(* The runs of the checks of Seckill: the voucher may be missing, off the  *)
(* shelf, not yet or no longer on sale, or sold out when a call reads it,  *)
(* and the read itself may fail.  A failed read leaves the fields zero.    *)
(***************************************************************************)
Statuses == {1, 2, 3}

VoucherReads ==
  {[read |-> r, status |-> 0, beginTime |-> 0, endTime |-> 0, stock |-> 0] :
     r \in {"notFound", "error"}}
  \cup {[read |-> "ok", status |-> st, beginTime |-> b, endTime |-> e,
         stock |-> k] :
          st \in Statuses, b \in 0..MaxTime, e \in 0..MaxTime,
          k \in dbStock..initStock}

NextAdmission ==
  \/ \E u \in Users, v \in VoucherReads, now \in 0..MaxTime :
       TotalCalls < MaxCalls /\ Seckill(u, v, now, TRUE)
  \/ consumeOrders(TRUE, TRUE, TRUE)

SpecAdmission == Init /\ [][NextAdmission]_vars

(***************************************************************************)
(* seckill.lua on the stock key as the store holds it: key is <<>> when    *)
(* the key is missing (GET returns nil) and <<n>> when it holds n.         *)
(***************************************************************************)
\* Faulty variant: a missing stock key is decremented like a stocked one.
seckillScriptMissingKeyAdmits(key, set, userId) ==
  IF key = <<>>
    THEN IF userId \in set
           THEN [res |-> 2, key |-> key, set |-> set]
           ELSE [res |-> 0, key |-> <<-1>>, set |-> set \cup {userId}]
  ELSE LET r == seckillLua(key[1], set, userId)
       IN [res |-> r.res, key |-> <<r.stock>>, set |-> r.set]

seckillScript(key, set, userId) ==
  IF key = <<>>
    THEN [res |-> 1, key |-> key, set |-> set]
  ELSE LET r == seckillLua(key[1], set, userId)
       IN [res |-> r.res, key |-> <<r.stock>>, set |-> r.set]

\* the values of the stock key and the script results the runs draw from
StockKeys == {<<>>} \cup {<<n>> : n \in -1..MaxStock}

ScriptResults == -1..3

InitScript ==
  /\ SeckillIdle
  /\ IdIdle
  /\ ShopIdle
  /\ LoopIdle
  /\ \E key \in StockKeys, set \in SUBSET Users, u \in Users :
       fnIn = [fn |-> "seckillLua", key |-> key, set |-> set, userId |-> u]
  /\ fnOut = NoFn

\* one execution of the script and the return of Seckill for its result
RunScript(pubOk) ==
  /\ fnOut = NoFn
  /\ LET r == seckillScript(fnIn.key, fnIn.set, fnIn.userId)
     IN fnOut' = [fn |-> "seckillLua", res |-> r.res, key |-> r.key,
                  set |-> r.set, ret |-> SeckillReturns(r.res, pubOk)]
  /\ UNCHANGED <<fnIn, exceptFn>>

\* the return of Seckill for any integer the script call may hand back
SwitchRes(res, pubOk) ==
  /\ fnOut = NoFn
  /\ fnOut' = [fn |-> "switch", res |-> res, ret |-> SeckillReturns(res, pubOk)]
  /\ UNCHANGED <<fnIn, exceptFn>>

NextScript ==
  \/ \E pubOk \in BOOLEAN : RunScript(pubOk)
  \/ \E res \in ScriptResults, pubOk \in BOOLEAN : SwitchRes(res, pubOk)

SpecScript == InitScript /\ [][NextScript]_vars

\* time.Second = 1000000000 ns = 15258 * 2^16 + 51712
Second == <<0, 0, 15258, 51712>>

(***************************************************************************)
(* retryBackoff.  1<<uint(retryCount-1) is an int64 shift: 2^n for         *)
(* n < 63, the sign bit alone for n = 63 and 0 for n >= 64; its product    *)
(* with time.Second wraps modulo 2^64, which is time.Second shifted left   *)
(* by n.  30*time.Second is a constant.                                    *)
(***************************************************************************)
retryBackoff(retryCount) ==
  IF retryCount <= 0 THEN Second
  ELSE
    LET n == retryCount - 1
        backoff == IF n >= 64 THEN Zero64 ELSE Shl64(Second, n)
    IN IF Gt64(backoff, MulSmall64(Second, 30))
         THEN MulSmall64(Second, 30)
       ELSE backoff

\* the retry counts the runs of retryBackoff draw from
RetryCounts == 1..MaxRetryCountArg

InitBackoff ==
  /\ SeckillIdle
  /\ IdIdle
  /\ ShopIdle
  /\ LoopIdle
  /\ \E n \in RetryCounts : fnIn = [fn |-> "retryBackoff", retryCount |-> n]
  /\ fnOut = NoFn

\* publishRetryOrDLQ: backoff := retryBackoff(payload.RetryCount)
ComputeBackoff ==
  /\ fnOut = NoFn
  /\ fnOut' = [fn |-> "retryBackoff", backoff |-> retryBackoff(fnIn.retryCount)]
  /\ UNCHANGED <<fnIn, exceptFn>>

NextBackoff == ComputeBackoff

SpecBackoff == InitBackoff /\ [][NextBackoff]_vars

(***************************************************************************)
(* The runs of the id worker: callers of NextId for one prefix, the clock  *)
(* and the expiry of the day keys.                                         *)
(***************************************************************************)
InitId == SeckillIdle /\ FnIdle /\ ShopIdle /\ LoopIdle /\ IdStart

SpecId == InitId /\ [][NextIdWorker]_vars

(***************************************************************************)
(* The runs of GetByID and Update on one shop: the row exists or not, the  *)
(* caches start cold.                                                      *)
(***************************************************************************)
GetByIDSteps(r) ==
  \/ GetByIDGet(r)
  \/ GetByIDSetLocal(r)
  \/ GetByIDTryLock(r)
  \/ GetByIDDoubleCheck(r)
  \/ loadShopAndCacheFirst(r)
  \/ loadShopAndCacheSet(r)
  \/ GetByIDUnlock(r)

InitShop ==
  /\ SeckillIdle /\ FnIdle /\ IdIdle /\ LoopIdle
  /\ \E v \in {NoShop, 1} :
       shopStore = [db |-> v, l2 |-> NoKey, l1 |-> NoShop, lock |-> FALSE,
                    holder |-> NoHolder]
  /\ rd = [r \in ReaderIds |-> IdleReader]
  /\ upd = [pc |-> "idle", val |-> NoShop, returned |-> NoShop, err |-> FALSE]
  /\ tasks = <<>>
  /\ shopCalls = 0
  /\ bloom = [bits |-> {}, adder |-> [id |-> 0, k |-> 0], done |-> {},
              adds |-> 0]

NextShop ==
  \/ \E r \in ReaderIds : GetByID(r)
  \/ \E r \in ReaderIds : GetByIDSteps(r)
  \/ UpdateBegin
  \/ \E ok \in BOOLEAN : UpdateDelRedis(ok)
  \/ UpdateDelLocal
  \/ UpdateCommit
  \/ LocalShopExpire
  \/ ShopKeyExpire
  \/ LockExpire

SpecShop == InitShop /\ [][NextShop]_vars

(***************************************************************************)
(* The runs of GetByIDWithLogicalExpire on one shop whose envelope (data   *)
(* 1) is logically expired; the row is unchanged or has changed since.     *)
(* The runs are shorter than LOCK_SHOP_TTL and than the logical expiry of  *)
(* a rebuilt envelope: the mutex is only released by unlock, and a rebuilt *)
(* envelope stays fresh.                                                   *)
(***************************************************************************)
InitLogical ==
  /\ SeckillIdle /\ FnIdle /\ IdIdle /\ LoopIdle
  /\ \E v \in {1, 2} :
       shopStore = [db |-> v,
                    l2 |-> [kind |-> "envelope", data |-> 1, fresh |-> FALSE],
                    l1 |-> NoShop, lock |-> FALSE,
                    holder |-> NoHolder]
  /\ rd = [r \in ReaderIds |-> IdleReader]
  /\ upd = [pc |-> "idle", val |-> NoShop, returned |-> NoShop, err |-> FALSE]
  /\ tasks = <<>>
  /\ shopCalls = 0
  /\ bloom = [bits |-> {}, adder |-> [id |-> 0, k |-> 0], done |-> {},
              adds |-> 0]

NextLogical ==
  \/ \E r \in ReaderIds : GetByIDWithLogicalExpire(r)
  \/ \E r \in ReaderIds : LogicalExpireTryLock(r)
  \/ \E i \in 1..Len(tasks) : rebuildFirst(i)
  \/ \E i \in 1..Len(tasks) : rebuildSave(i)
  \/ \E i \in 1..Len(tasks) : rebuildUnlock(i)

SpecLogical == InitLogical /\ [][NextLogical]_vars

(***************************************************************************)
(* The runs of the Bloom filter in front of GetByID.                       *)
(***************************************************************************)
NextBloom ==
  \/ \E id \in BloomIds : bloomAdd(id)
  \/ \E ok \in BOOLEAN : bloomAddSetBit(ok)
  \/ \E r \in ReaderIds, id \in BloomIds : bloomMightContain(r, id)
  \/ \E r \in ReaderIds : GetByIDWithBloom(r)
  \/ \E r \in ReaderIds : bloomMightContainNext(r)
  \/ \E r \in ReaderIds : GetByIDFromBloom(r)
  \/ \E r \in ReaderIds : GetByIDSteps(r)

SpecBloom == InitShop /\ [][NextBloom]_vars

----------------------------------------------------------------------------
(***************************************************************************)
(* The consumer loops step by step and in time.  A goroutine fetches a     *)
(* message, parses it, and inside handleConsume passes the forced-failure  *)
(* toggles, sleeps until the message's nextRetryAt, runs createOrderTx and *)
(* hands a failure off; then the loop commits or not.  The clock counts    *)
(* ticks of 1/TicksPerSecond second; nextRetryAt is in whole seconds.      *)
(***************************************************************************)
\* Time.Unix(): whole seconds, the fraction is dropped
Unix(now) == now \div TicksPerSecond

\* a time.Duration of whole seconds, as a number of seconds
Seconds(d) == CHOOSE n \in 0..30 : MulSmall64(Second, n) = d

\* payload.NextRetryAt = time.Now().Add(backoff).Unix()
NextRetryAt(now, retryCount) ==
  Unix(now + Seconds(retryBackoff(retryCount)) * TicksPerSecond)

\* Faulty variant of gateDelay: the gate is open at once.
gateDelayNone(nextRetryAt, now) == 0

\* how long handleConsume sleeps before createOrderTx, in ticks
gateDelay(nextRetryAt, now) ==
  IF nextRetryAt > 0
    THEN LET delay == nextRetryAt * TicksPerSecond - now
         IN IF delay > 0 THEN delay ELSE 0
    ELSE 0

\* SendEmail: refuses an incomplete configuration, else talks to the server
SendEmail(cfg, smtpOk) ==
  IF ~cfg.complete THEN "incomplete"
  ELSE IF smtpOk THEN "nil"
  ELSE "smtpError"

\* what the bytes at offset pos of topic t hold; Seckill publishes
\* NextRetryAt 0
wireOf(t, pos) ==
  IF pos \in DOMAIN wire[t] THEN wire[t][pos]
  ELSE [nextRetryAt |-> 0, parses |-> TRUE]

putWire(t, pos, w) ==
  [wire EXCEPT ![t] = [q \in (DOMAIN wire[t]) \cup {pos} |->
                         IF q = pos THEN w ELSE wire[t][q]]]

\* the messages json.Unmarshal rejects, over all topics
Garbage ==
  Cardinality({tp \in UNION {{t} \X (DOMAIN wire[t]) : t \in Topics} :
                 ~wire[tp[1]][tp[2]].parses})

\* bytes that are not an orderMessage arrive on topic t
ProduceRaw(t) ==
  /\ Garbage < MaxGarbage
  /\ topic' = [topic EXCEPT ![t] = Append(@, ZeroMessage)]
  /\ wire' = putWire(t, Len(topic[t]) + 1, [nextRetryAt |-> 0, parses |-> FALSE])
  /\ UNCHANGED <<dbStock, orders, redisStock, orderSet, icr, readPos,
                 committed, failCount, failOnce, calls, admitted, lost,
                 compensations, lastTx, faults, replays, initStock, lastCall,
                 clock, loop, smtpCfg, exceptLoop>>

Tick ==
  /\ clock < MaxClock
  /\ clock' = clock + 1
  /\ UNCHANGED <<seckillVars, wire, loop, smtpCfg, exceptLoop>>

\* the message wire holds for what publishRetryOrDLQ appended, if anything
stampWire(t, pos, r) ==
  LET next == topic[t][pos].retryCount + 1 IN
  IF Len(r.s.topic["retry"]) > Len(topic["retry"])
    THEN putWire("retry", Len(r.s.topic["retry"]),
                 [nextRetryAt |-> NextRetryAt(clock, next), parses |-> TRUE])
  ELSE IF Len(r.s.topic["dlq"]) > Len(topic["dlq"])
    THEN putWire("dlq", Len(r.s.topic["dlq"]),
                 [nextRetryAt |-> wireOf(t, pos).nextRetryAt, parses |-> TRUE])
  ELSE wire

\* Faulty variant of loopFetchGarbage: the message is skipped without a
\* commit.
loopFetchGarbageNoCommit(t, commitOk) ==
  /\ loop[t].pc = "fetch"
  /\ readPos[t] < Len(topic[t])
  /\ ~wireOf(t, readPos[t] + 1).parses
  /\ commitOk
  /\ readPos' = [readPos EXCEPT ![t] = @ + 1]
  /\ loop' = [loop EXCEPT ![t] = [@ EXCEPT !.pos = readPos[t] + 1,
                                           !.last = "garbage",
                                           !.commit = "none",
                                           !.mail = "none"]]
  /\ UNCHANGED <<dbStock, orders, redisStock, orderSet, icr, topic, committed,
                 failCount, failOnce, calls, admitted, lost, compensations,
                 lastTx, faults, replays, initStock, lastCall, clock, wire,
                 smtpCfg, exceptLoop>>

\* FetchMessage returns bytes json.Unmarshal rejects: commit, next message
loopFetchGarbage(t, commitOk) ==
  /\ loop[t].pc = "fetch"
  /\ readPos[t] < Len(topic[t])
  /\ ~wireOf(t, readPos[t] + 1).parses
  /\ ~commitOk => faults < MaxLoopFaults
  /\ faults' = IF commitOk THEN faults ELSE faults + 1
  /\ readPos' = [readPos EXCEPT ![t] = @ + 1]
  /\ committed' = IF commitOk
                    THEN [committed EXCEPT ![t] = readPos[t] + 1]
                    ELSE committed
  /\ loop' = [loop EXCEPT ![t] = [@ EXCEPT !.pos = readPos[t] + 1,
                                           !.last = "garbage",
                                           !.commit = IF commitOk THEN "ok" ELSE "failed",
                                           !.mail = "none"]]
  /\ UNCHANGED <<dbStock, orders, redisStock, orderSet, icr, topic, failCount,
                 failOnce, calls, admitted, lost, compensations, lastTx,
                 replays, initStock, lastCall, clock, wire, smtpCfg,
                 exceptLoop>>

\* the end of an iteration of consumeOrders / consumeRetryOrders: r is what
\* handleConsume returned for the message at pos
loopEnd(t, pos, r, kind, pubOk, commitOk) ==
  LET commits == r.ret \in {"nil", "errRetryEnqueued"}
      fault == (r.wrote /\ ~pubOk) \/ (commits /\ ~commitOk)
  IN /\ r.wrote \/ pubOk
     /\ commits \/ commitOk
     /\ fault => faults < MaxLoopFaults
     /\ faults' = IF fault THEN faults + 1 ELSE faults
     /\ SetStores(r.s)
     /\ wire' = stampWire(t, pos, r)
     /\ committed' = IF commits /\ commitOk
                       THEN [committed EXCEPT ![t] = pos]
                       ELSE committed
     /\ loop' = [loop EXCEPT ![t] =
                   [pc |-> "fetch", pos |-> pos, wake |-> 0,
                    unhanded |-> IF r.ret = "writeError"
                                   THEN loop[t].unhanded \cup {pos}
                                   ELSE loop[t].unhanded \ {pos},
                    last |-> kind,
                    commit |-> IF ~commits THEN "none"
                               ELSE IF commitOk THEN "ok" ELSE "failed",
                    mail |-> "none"]]

\* FetchMessage returns a message the forced-failure toggles apply to:
\* handleConsume hands it off before the gate
loopFetchForced(t, pubOk, commitOk) ==
  /\ loop[t].pc = "fetch"
  /\ readPos[t] < Len(topic[t])
  /\ wireOf(t, readPos[t] + 1).parses
  /\ Forced(topic[t][readPos[t] + 1])
  /\ readPos' = [readPos EXCEPT ![t] = @ + 1]
  /\ loopEnd(t, readPos[t] + 1,
             handleConsume(topic[t][readPos[t] + 1], TRUE, pubOk, Stores),
             "forced", pubOk, commitOk)
  /\ UNCHANGED <<icr, failCount, failOnce, calls, admitted, lost, replays,
                 initStock, lastCall, clock, smtpCfg, exceptLoop>>

\* FetchMessage returns a message that reaches the gate of handleConsume
loopFetchGate(t) ==
  /\ loop[t].pc = "fetch"
  /\ readPos[t] < Len(topic[t])
  /\ wireOf(t, readPos[t] + 1).parses
  /\ ~Forced(topic[t][readPos[t] + 1])
  /\ readPos' = [readPos EXCEPT ![t] = @ + 1]
  /\ LET delay == gateDelay(wireOf(t, readPos[t] + 1).nextRetryAt, clock)
     IN loop' = [loop EXCEPT ![t] = [@ EXCEPT !.pc = IF delay > 0 THEN "sleep" ELSE "tx",
                                              !.pos = readPos[t] + 1,
                                              !.wake = clock + delay]]
  /\ UNCHANGED <<dbStock, orders, redisStock, orderSet, icr, topic, committed,
                 failCount, failOnce, calls, admitted, lost, compensations,
                 lastTx, faults, replays, initStock, lastCall, clock, wire,
                 smtpCfg, exceptLoop>>

\* time.Sleep(delay) returns
loopWake(t) ==
  /\ loop[t].pc = "sleep"
  /\ clock >= loop[t].wake
  /\ loop' = [loop EXCEPT ![t] = [@ EXCEPT !.pc = "tx"]]
  /\ UNCHANGED <<seckillVars, clock, wire, smtpCfg, exceptLoop>>

\* createOrderTx, the hand-off on failure, and the end of the iteration
loopTx(t, dbOk, pubOk, commitOk) ==
  /\ loop[t].pc = "tx"
  /\ loopEnd(t, loop[t].pos,
             handleConsume(topic[t][loop[t].pos], dbOk, pubOk, Stores),
             "tx", pubOk, commitOk)
  /\ UNCHANGED <<icr, readPos, failCount, failOnce, calls, admitted, lost,
                 replays, initStock, lastCall, clock, smtpCfg, exceptLoop>>

\* Faulty variant of consumeDLQAlert: the offset is committed only when the
\* mail went out.
consumeDLQAlertCommitOnSent(smtpOk, commitOk) ==
  /\ loop["dlq"].pc = "fetch"
  /\ readPos["dlq"] < Len(topic["dlq"])
  /\ LET pos == readPos["dlq"] + 1
         parses == wireOf("dlq", pos).parses
         mail == IF ~parses THEN "none"
                 ELSE IF smtpCfg.Host THEN SendEmail(smtpCfg, smtpOk)
                 ELSE "skipped"
         commits == mail \in {"none", "nil"}
     IN /\ (~parses \/ ~smtpCfg.complete) => smtpOk
        /\ commits \/ commitOk
        /\ (commits /\ ~commitOk) => faults < MaxLoopFaults
        /\ faults' = IF commits /\ ~commitOk THEN faults + 1 ELSE faults
        /\ readPos' = [readPos EXCEPT !["dlq"] = pos]
        /\ committed' = IF commits /\ commitOk
                          THEN [committed EXCEPT !["dlq"] = pos]
                          ELSE committed
        /\ loop' = [loop EXCEPT !["dlq"] =
                      [@ EXCEPT !.pos = pos,
                                !.last = IF parses THEN "alert" ELSE "garbage",
                                !.commit = IF ~commits THEN "none"
                                           ELSE IF commitOk THEN "ok" ELSE "failed",
                                !.mail = mail]]
  /\ UNCHANGED <<dbStock, orders, redisStock, orderSet, icr, topic, failCount,
                 failOnce, calls, admitted, lost, compensations, lastTx,
                 replays, initStock, lastCall, clock, wire, smtpCfg,
                 exceptLoop>>

\* one iteration of consumeDLQ
consumeDLQAlert(smtpOk, commitOk) ==
  /\ loop["dlq"].pc = "fetch"
  /\ readPos["dlq"] < Len(topic["dlq"])
  /\ LET pos == readPos["dlq"] + 1
         parses == wireOf("dlq", pos).parses
     IN /\ (~parses \/ ~smtpCfg.complete) => smtpOk
        /\ ~commitOk => faults < MaxLoopFaults
        /\ faults' = IF commitOk THEN faults ELSE faults + 1
        /\ readPos' = [readPos EXCEPT !["dlq"] = pos]
        /\ committed' = IF commitOk
                          THEN [committed EXCEPT !["dlq"] = pos]
                          ELSE committed
        /\ loop' = [loop EXCEPT !["dlq"] =
                      [@ EXCEPT !.pos = pos,
                                !.last = IF parses THEN "alert" ELSE "garbage",
                                !.commit = IF commitOk THEN "ok" ELSE "failed",
                                !.mail = IF ~parses THEN "none"
                                         ELSE IF smtpCfg.Host
                                           THEN SendEmail(smtpCfg, smtpOk)
                                         ELSE "skipped"]]
  /\ UNCHANGED <<dbStock, orders, redisStock, orderSet, icr, topic, failCount,
                 failOnce, calls, admitted, lost, compensations, lastTx,
                 replays, initStock, lastCall, clock, wire, smtpCfg,
                 exceptLoop>>

Consumers == {"primary", "retry"}

\* the timed runs: store and broker fail, FORCE_SECKILL_FAIL_COUNT is unset
\* or 1; the third retry is later than the clock runs, so nothing is
\* dead-lettered
InitLoop ==
  /\ \E fc \in {-1, 1} : InitSeckill(MaxStock, fc, FALSE)
  /\ FnIdle /\ IdIdle /\ ShopIdle
  /\ LoopIdle

NextLoop ==
  \/ \E u \in Users :
       TotalCalls < MaxCalls /\ Seckill(u, OnSale(dbStock), 0, TRUE)
  \/ \E t \in Consumers, pubOk, commitOk \in BOOLEAN : loopFetchForced(t, pubOk, commitOk)
  \/ \E t \in Consumers : loopFetchGate(t)
  \/ \E t \in Consumers : loopWake(t)
  \/ \E t \in Consumers, dbOk, pubOk, commitOk \in BOOLEAN : loopTx(t, dbOk, pubOk, commitOk)
  \/ \E t \in Consumers : faults < MaxLoopFaults /\ Rebalance(t)
  \/ Tick

SpecLoop == InitLoop /\ [][NextLoop]_vars

(***************************************************************************)
(* The dead-letter runs: the server is started with                        *)
(* FORCE_SECKILL_FAIL_COUNT one above maxRetryCount, so every reservation  *)
(* is handed from topic to topic without passing the gate and ends on the  *)
(* dead-letter topic; with each kind of mail settings; and bytes that are  *)
(* not an orderMessage can arrive on any topic.                            *)
(***************************************************************************)
InitAlert ==
  /\ InitSeckill(MaxStock, maxRetryCount + 1, FALSE)
  /\ FnIdle /\ IdIdle /\ ShopIdle
  /\ clock = 0
  /\ wire = [t \in Topics |-> <<>>]
  /\ loop = [t \in Topics |-> IdleLoop]
  /\ smtpCfg \in SmtpConfigs

NextAlert ==
  \/ \E u \in Users :
       TotalCalls < MaxCalls /\ Seckill(u, OnSale(dbStock), 0, TRUE)
  \/ \E t \in Topics : ProduceRaw(t)
  \/ \E t \in Consumers, commitOk \in BOOLEAN : loopFetchGarbage(t, commitOk)
  \/ \E t \in Consumers, pubOk, commitOk \in BOOLEAN : loopFetchForced(t, pubOk, commitOk)
  \/ \E smtpOk, commitOk \in BOOLEAN : consumeDLQAlert(smtpOk, commitOk)
  \/ \E t \in Topics : Rebalance(t)

SpecAlert == InitAlert /\ [][NextAlert]_vars

(***************************************************************************)
(* The runs of the first copy of GetByID: the row exists or not, the L2    *)
(* key and the mutex key expire.                                           *)
(***************************************************************************)
NextSentinel ==
  \/ \E r \in ReaderIds : GetByIDSentinel(r)
  \/ \E r \in ReaderIds : GetByIDGet(r)
  \/ \E r \in ReaderIds : GetByIDTryLock(r)
  \/ \E r \in ReaderIds : GetByIDDoubleCheck(r)
  \/ \E r \in ReaderIds : loadShopAndCacheFirst(r)
  \/ \E r \in ReaderIds : loadShopAndCacheSet(r)
  \/ \E r \in ReaderIds : loadShopAndCacheSetNull(r)
  \/ \E r \in ReaderIds : GetByIDUnlock(r)
  \/ ShopKeyExpire
  \/ LockExpire

SpecSentinel == InitShop /\ [][NextSentinel]_vars

(***************************************************************************)
(* The stampede runs: the row exists and is not updated, the caches start  *)
(* cold and no cache entry expires; concurrent GetByID calls, and the      *)
(* mutex key, which lives LOCK_SHOP_TTL seconds.                           *)
(***************************************************************************)
InitStampede ==
  /\ SeckillIdle /\ FnIdle /\ IdIdle /\ LoopIdle
  /\ ShopIdle

NextStampede ==
  \/ \E r \in ReaderIds : GetByID(r)
  \/ \E r \in ReaderIds : GetByIDSteps(r)
  \/ LockExpire

SpecStampede == InitStampede /\ [][NextStampede]_vars


(***************************************************************************)
(* The runs in which both read flows are called for the same shop: the     *)
(* two flows, the rebuild task and Update use the one key cache:shop:<id>. *)
(***************************************************************************)
NextMixed ==
  \/ \E r \in ReaderIds : GetByID(r)
  \/ \E r \in ReaderIds : GetByIDSteps(r)
  \/ \E r \in ReaderIds : GetByIDWithLogicalExpire(r)
  \/ \E r \in ReaderIds : LogicalExpireTryLock(r)
  \/ \E i \in 1..Len(tasks) : rebuildFirst(i)
  \/ \E i \in 1..Len(tasks) : rebuildSave(i)
  \/ \E i \in 1..Len(tasks) : rebuildUnlock(i)
  \/ UpdateBegin
  \/ \E ok \in BOOLEAN : UpdateDelRedis(ok)
  \/ UpdateDelLocal
  \/ UpdateCommit
  \/ LocalShopExpire

SpecMixed == InitStampede /\ [][NextMixed]_vars


(***************************************************************************)
(* The runs of GetByID in which calls keep arriving: a caller that has     *)
(* returned may call again, any number of times.  The row exists or not,   *)
(* the caches start cold, nothing expires but the mutex key.  Every call   *)
(* that is inside GetByID keeps taking its steps (each store access        *)
(* returns, the sleep ends), and a mutex key that stays is removed by its  *)
(* TTL.                                                                    *)
(***************************************************************************)
GetByIDAgain(r) ==
  /\ rd[r].pc \in {"idle", "done"}
  /\ rd' = [rd EXCEPT ![r] = getLocalShop(Enter("GetByID", ShopId))]
  /\ UNCHANGED <<shopStore, shopCalls, upd, tasks, bloom, exceptShop>>

NextWaiting ==
  \/ \E r \in ReaderIds : GetByIDAgain(r)
  \/ \E r \in ReaderIds : GetByIDSteps(r)
  \/ LockExpire

SpecWaiting ==
  /\ InitShop
  /\ [][NextWaiting]_vars
  /\ \A r \in ReaderIds : WF_vars(GetByIDSteps(r))
  /\ WF_vars(LockExpire)

----------------------------------------------------------------------------
(***************************************************************************)
(* Quantities the properties speak about.                                  *)
(***************************************************************************)
AdmittedOf(u) == {a \in admitted : a.userId = u}

TotalCompensations == SumOver(compensations, OrderIds)

CompensationsOf(u) == SumOver(compensations, {a.orderId : a \in AdmittedOf(u)})

RowsOfUser(u) == {r \in BagToSet(orders) : r.userId = u}

RowCountOfUser(u) == SumOver(orders, RowsOfUser(u))

HasRow(o) == isDuplicateKey(orders, o)

CountIn(log, o) == Cardinality({i \in 1..Len(log) : log[i].orderId = o})

RetryPubs(o) == CountIn(topic["retry"], o)

DlqPubs(o) == CountIn(topic["dlq"], o)

IsAdmitted(o) == \E a \in admitted : a.orderId = o

\* the message a consumer step on reader t handles
Fetched(t) == topic[t][readPos[t] + 1]

\* a step of the consumer loop on reader t
Consumes(t) == readPos[t] < Len(topic[t]) /\ readPos'[t] = readPos[t] + 1

\* no reader of the pipeline has anything left to fetch or to fetch again
Drained ==
  \A t \in {"primary", "retry"} :
    readPos[t] = Len(topic[t]) /\ committed[t] = Len(topic[t])

OneRowPerOrderId ==
  \A r \in BagToSet(orders) :
    /\ CopiesIn(r, orders) = 1
    /\ \A q \in BagToSet(orders) : q.id = r.id => q = r

\* only replay_dlq.sh puts a message that exhausted its retries on the primary topic
IsReplayed(m) == m.retryCount > maxRetryCount

Callers == {u \in Buyers : calls[u] > 0}

\* C1 (as stated): the number of Seckill calls that returned success never
\* exceeds the initial stock S.
C1_SuccessesAtMostStock == Cardinality(admitted) <= initStock

\* C1 (amended): the number of Seckill calls that returned success never
\* exceeds the initial stock S plus the number of compensations that ran.
C1_SuccessesAtMostStockPlusCompensations ==
  Cardinality(admitted) <= initStock + TotalCompensations

C1_Witness ==
  /\ TotalCompensations >= 1
  /\ redisStock = 0
  /\ Cardinality(admitted) = initStock + TotalCompensations

C3_OneOrderPerUser == \A u \in Buyers : RowCountOfUser(u) <= 1

\* C4: the stored stock is never negative and every change of it is a
\* decrement by one applied while it is positive.
C4_StockNeverNegative ==
  /\ [](dbStock >= 0)
  /\ [][dbStock' = dbStock \/ (dbStock > 0 /\ dbStock' = dbStock - 1)]_vars

C4_Witness ==
  /\ dbStock = 0
  /\ lastTx.err = "errDBStockNotEnough"

\* C5: once the pipeline has nothing left to process, every reservation
\* whose Seckill call returned success has an order row or exactly one
\* message in the dead-letter topic.
C5_AdmittedReachesOutcome ==
  Drained => \A a \in admitted :
               HasRow(a.orderId) \/ DlqPubs(a.orderId) = 1

\* C6: no orderId ever has more than one order row, and a consumer step
\* whose message already has a row (the store answering) leaves the order
\* table and the stored stock unchanged, gets no error from createOrderTx
\* and hands nothing off.
C6_IdempotentReplay ==
  /\ []OneRowPerOrderId
  /\ [][\A t \in {"primary", "retry"} :
          (/\ Consumes(t)
           /\ ~Forced(Fetched(t))
           /\ HasRow(Fetched(t).orderId)
           /\ lastTx'.dbOk)
          => /\ orders' = orders
             /\ dbStock' = dbStock
             /\ lastTx'.err = "nil"
             /\ topic' = topic
             /\ redisStock' = redisStock]_vars

C6_Witness ==
  /\ lastTx.hadRow
  /\ lastTx.dbOk
  /\ lastTx.err = "nil"
  /\ Cardinality(RowsOf(orders, lastTx.orderId)) = 1

\* C7: every Seckill call whose publish failed after the script returned 0
\* returned its orderId, and that step decremented the stock key, added the
\* user to the order set and left the topics alone.
C7_PublishFailureNotPropagated ==
  /\ [](\A o \in lost : IsAdmitted(o))
  /\ [][lost' # lost =>
          \E a \in admitted' \ admitted :
            /\ lost' = lost \cup {a.orderId}
            /\ a.userId \in orderSet' \ orderSet
            /\ redisStock' = redisStock - 1
            /\ topic' = topic]_vars

C7_Witness ==
  \E a \in admitted : /\ a.orderId \in lost
                      /\ a.userId \in orderSet
                      /\ redisStock = initStock - 1
                      /\ topic["primary"] = <<>>

\* C8: with FORCE_SECKILL_FAIL_COUNT=3 a reservation is never dead-lettered,
\* has a row only after three publications to the retry topic, and ends with
\* the row; with 4 it never gets a row, is dead-lettered only after three
\* publications to the retry topic, and ends dead-lettered once.
C8_FailureInjection ==
  /\ [](\A a \in admitted :
          /\ RetryPubs(a.orderId) <= 3
          /\ failCount = 3 => /\ DlqPubs(a.orderId) = 0
                              /\ HasRow(a.orderId) => RetryPubs(a.orderId) = 3
          /\ failCount = 4 => /\ ~HasRow(a.orderId)
                              /\ DlqPubs(a.orderId) <= 1
                              /\ DlqPubs(a.orderId) = 1 => RetryPubs(a.orderId) = 3)
  /\ \A o \in OrderIds :
       IsAdmitted(o) ~>
         /\ RetryPubs(o) = 3
         /\ failCount = 3 => HasRow(o) /\ DlqPubs(o) = 0
         /\ failCount = 4 => ~HasRow(o) /\ DlqPubs(o) = 1

C8_Witness ==
  /\ failCount = 4
  /\ \E a \in admitted : /\ RetryPubs(a.orderId) = 3
                         /\ DlqPubs(a.orderId) = 1
                         /\ ~HasRow(a.orderId)
                         /\ compensations[a.orderId] = 1

\* C9 (as stated): a consumer step on a replayed dead-letter message changes
\* neither the order table nor the stored stock.
C9_ReplayAddsNothing ==
  [][(Consumes("primary") /\ IsReplayed(Fetched("primary")))
       => orders' = orders /\ dbStock' = dbStock]_vars

\* C9 (amended): no orderId ever has more than one row; a consumer step on a
\* replayed dead-letter message changes nothing when the row exists, and
\* otherwise either changes nothing or inserts that one row and decrements
\* the positive stored stock by one.
C9_ReplayAtMostOneRow ==
  /\ []OneRowPerOrderId
  /\ [][(Consumes("primary") /\ IsReplayed(Fetched("primary")))
          => LET m == Fetched("primary")
                 row == [id |-> m.orderId, userId |-> m.userId]
             IN \/ orders' = orders /\ dbStock' = dbStock
                \/ /\ ~HasRow(m.orderId)
                   /\ dbStock > 0
                   /\ orders' = orders (+) SetToBag({row})
                   /\ dbStock' = dbStock - 1]_vars

C9_Witness ==
  \E o \in OrderIds :
    /\ DlqPubs(o) >= 1
    /\ HasRow(o)
    /\ Cardinality({i \in 1..readPos["primary"] :
                      /\ IsReplayed(topic["primary"][i])
                      /\ topic["primary"][i].orderId = o}) = 2

\* C10: once more distinct users than the initial stock have called Seckill,
\* the stored stock eventually is 0 with exactly as many order rows as the
\* initial stock; there are never more rows than that.
C10_SellOut ==
  /\ [](BagCardinality(orders) <= initStock)
  /\ (Cardinality(Callers) > initStock)
       ~> (dbStock = 0 /\ BagCardinality(orders) = initStock)

C10_Witness ==
  /\ Cardinality(Callers) > initStock
  /\ dbStock = 0
  /\ BagCardinality(orders) = initStock
  /\ redisStock = 0

----------------------------------------------------------------------------
\* C17: Seckill rejects when the voucher is not found, else when its status
\* is not active, else when now is before beginTime, else when now is after
\* endTime, else when the stored stock is <= 0; a rejected call has not run
\* the script, leaves the stock key, the order set and the id counter as
\* they were and publishes nothing.
Rejections ==
  {"voucherNotFound", "dbError", "offShelf", "notStarted", "ended",
   "stockNotEnough"}

C17_PreconditionsInOrder ==
  [][calls' # calls =>
       LET c == lastCall' IN
       /\ c.read = "notFound" => c.err = "voucherNotFound"
       /\ c.read = "ok" =>
            /\ c.status # 1 => c.err = "offShelf"
            /\ c.status = 1 =>
                 /\ c.now < c.beginTime => c.err = "notStarted"
                 /\ c.now >= c.beginTime =>
                      /\ c.now > c.endTime => c.err = "ended"
                      /\ c.now <= c.endTime /\ ~c.stockLeft =>
                           c.err = "stockNotEnough"
       /\ c.err \in Rejections =>
            /\ ~c.script
            /\ UNCHANGED <<redisStock, orderSet, icr, topic>>
       /\ c.err \notin Rejections => c.script]_vars

C17_Witness ==
  /\ lastCall.err = "offShelf"
  /\ lastCall.now < lastCall.beginTime
  /\ ~lastCall.stockLeft
  /\ redisStock < initStock

----------------------------------------------------------------------------
\* C18: the script returns 1 and changes nothing when the stock key is
\* missing or <= 0; otherwise 2 and changes nothing when the user is in the
\* order set; otherwise it decrements the stock key, adds the user and
\* returns 0.  Seckill returns success only for 0, sold-out for 1,
\* already-ordered for 2 and a generic failure for any other value.
ReturnFor(res) ==
  IF res = 0 THEN "orderID"
  ELSE IF res = 1 THEN "soldOut"
  ELSE IF res = 2 THEN "alreadyOrdered"
  ELSE "failed"

C18_ScriptResults ==
  /\ fnOut.fn = "seckillLua" =>
       /\ IF fnIn.key = <<>> \/ fnIn.key[1] <= 0
            THEN fnOut.res = 1 /\ fnOut.key = fnIn.key /\ fnOut.set = fnIn.set
          ELSE IF fnIn.userId \in fnIn.set
            THEN fnOut.res = 2 /\ fnOut.key = fnIn.key /\ fnOut.set = fnIn.set
          ELSE /\ fnOut.res = 0
               /\ fnOut.key = <<fnIn.key[1] - 1>>
               /\ fnOut.set = fnIn.set \cup {fnIn.userId}
       /\ fnOut.ret = ReturnFor(fnOut.res)
  /\ fnOut.fn = "switch" =>
       /\ fnOut.ret = ReturnFor(fnOut.res)
       /\ fnOut.ret = "orderID" <=> fnOut.res = 0

C18_Witness ==
  /\ fnOut.fn = "seckillLua"
  /\ fnIn.key = <<>>
  /\ fnIn.userId \notin fnIn.set
  /\ fnOut.res = 1
  /\ fnOut.ret = "soldOut"

----------------------------------------------------------------------------
Taken(t) == topic[t][readPos[t] + 1]

HandOff(m) == [m EXCEPT !.retryCount = @ + 1]

----------------------------------------------------------------------------
\* C20: for every retryCount >= 1, retryBackoff(retryCount) equals
\* min(2^(retryCount-1) seconds, 30 seconds): it is never below 1 second,
\* never above 30 seconds and not below the backoff of retryCount - 1.
MinPow2Or30(retryCount) ==
  IF retryCount - 1 >= 5 THEN MulSmall64(Second, 30)
  ELSE MulSmall64(Second, 2^(retryCount - 1))

C20_BackoffFormula ==
  fnOut.fn = "retryBackoff" =>
    /\ fnOut.backoff = MinPow2Or30(fnIn.retryCount)
    /\ ~Gt64(Second, fnOut.backoff)
    /\ ~Gt64(fnOut.backoff, MulSmall64(Second, 30))
    /\ ~Gt64(retryBackoff(fnIn.retryCount - 1), fnOut.backoff)

----------------------------------------------------------------------------
\* the finished NextId calls that returned an id
Returned == {i \in 1..Len(idLog) : idLog[i].err = "nil"}

\* C15: any two ids returned by NextId for one prefix are distinct, however
\* the calls interleave.
C15_IdsDistinct ==
  \A i, j \in Returned : i # j => idLog[i].id # idLog[j].id

C15_Witness ==
  \E i, j \in Returned :
    /\ i < j
    /\ idLog[i].caller # idLog[j].caller
    /\ idLog[i].date = idLog[j].date
    /\ idLog[i].ts = idLog[j].ts
    /\ idPc[idLog[i].caller] # 0

\* C16: every id returned is non-negative, its bits 32..62 are the seconds
\* since the epoch and its low 32 bits the counter; NextId returns an error
\* when the epoch offset is negative or above 2^31 - 1, when the counter is
\* above 2^32 - 1, and when setting the expiry of the key fails.
C16_IdLayout ==
  \A i \in 1..Len(idLog) :
    LET e == idLog[i] IN
    /\ e.err = "nil" =>
         /\ ~Neg64(e.id)
         /\ <<0, 0, e.id[1], e.id[2]>> = e.ts
         /\ <<0, 0, e.id[3], e.id[4]>> = e.count
         /\ ~Neg64(e.ts) /\ ~Gt64(e.ts, maxTimestamp)
         /\ ~Gt64(e.count, maxSequence) /\ Gt64(e.count, Zero64)
    /\ Neg64(e.ts) => e.err = "beforeEpoch"
    /\ Gt64(e.ts, maxTimestamp) => e.err = "timestampOverflow"
    /\ e.expire # "ok" => e.err \in {"expire", "expireNotSet"}
    /\ Gt64(e.count, maxSequence) => e.err = "sequenceOverflow"

C16_Witness ==
  \E i, j \in 1..Len(idLog) :
    /\ idLog[i].err = "nil"
    /\ idLog[i].ts = maxTimestamp
    /\ idLog[i].count = maxSequence
    /\ idLog[j].err = "sequenceOverflow"

----------------------------------------------------------------------------
\* the finished calls of GetByIDWithLogicalExpire
LogicalReads == {r \in ReaderIds : rd[r].mode = "LogicalExpire" /\ rd[r].pc = "done"}

\* C11: for concurrent GetByIDWithLogicalExpire calls on one shop whose
\* envelope is logically expired, exactly one rebuild task is started, every
\* call that found the envelope expired returns the stale data, and a call
\* that starts after the rebuild has written returns the new data.
C11_OneRebuild ==
  /\ Len(tasks) <= 1
  /\ \A r \in LogicalReads :
       /\ rd[r].expired => rd[r].ret = 1 /\ Len(tasks) = 1
       /\ rd[r].afterWrite => rd[r].ret = shopStore.db

----------------------------------------------------------------------------
\* the finished calls of GetByID
Reads == {r \in ReaderIds : rd[r].mode = "GetByID" /\ rd[r].pc = "done"}

\* C12: a GetByID that starts after Update has returned successfully
\* returns the value of that update (or of a later one) or not-found, never
\* a value older than it, whatever ran concurrently with the update.
C12_NoStaleReadAfterUpdate ==
  \A r \in Reads : rd[r].ret = NotFound \/ rd[r].ret >= rd[r].floor

----------------------------------------------------------------------------
\* C13: once bloomAdd(id) has completed, all bits of id are set in every
\* later state and every bloomMightContain(id) that starts later answers
\* true; no step clears a bit of the filter.
C13_NoFalseNegatives ==
  /\ [](/\ \A id \in bloom.done :
              \A i \in 1..Len(shopBloomSeeds) : bloomOffsets(id)[i] \in bloom.bits
        /\ \A r \in ReaderIds : rd[r].added => rd[r].maybe # "no")
  /\ [][bloom.bits \subseteq bloom'.bits]_vars

C13_Witness ==
  \E r \in ReaderIds :
    /\ rd[r].mode = "MightContain"
    /\ rd[r].added
    /\ rd[r].maybe = "yes"
    /\ bloom.adder.k > 1
    /\ bloom.adder.id # rd[r].id

\* C14: when the filter answers that the id is absent, GetByIDWithBloom
\* returns not-found having touched neither L1, nor the L2 shop key, nor the
\* row, nor the mutex; and no step of a GetByIDWithBloom call that the
\* filter has not answered with true changes the row, the caches or the
\* mutex.
C14_BloomRejectionTouchesNothing ==
  /\ [](\A r \in ReaderIds :
          rd[r].mode = "Bloom" /\ rd[r].maybe = "no" =>
            rd[r].pc = "done" /\ rd[r].ret = NotFound /\ rd[r].touched = {})
  /\ [][\A r \in ReaderIds :
          (rd'[r] # rd[r] /\ rd'[r].mode = "Bloom" /\ rd'[r].maybe # "yes") =>
            shopStore' = shopStore]_vars

C14_Witness ==
  \E r \in ReaderIds :
    /\ rd[r].mode = "Bloom"
    /\ rd[r].maybe = "no"
    /\ rd[r].k = 2
    /\ rd[r].pc = "done"
    /\ shopStore.l2.kind = "plain"

----------------------------------------------------------------------------
\* C22: a consumer step whose createOrderTx fails because the stored stock
\* is exhausted compensates (stock key + 1, user removed from the order
\* set), publishes to no topic, leaves the order table without a row for the
\* reservation and the stored stock as it was, and commits the offset (the
\* offset stays only when CommitMessages itself fails).
C22_NonRetryableIsTerminal ==
  [][\A t \in {"primary", "retry"} :
       (/\ Consumes(t)
        /\ ~Forced(Fetched(t))
        /\ lastTx'.err = "errDBStockNotEnough")
       => LET m == Fetched(t) IN
          /\ redisStock' = redisStock + 1
          /\ orderSet' = orderSet \ {m.userId}
          /\ compensations'[m.orderId] = compensations[m.orderId] + 1
          /\ topic' = topic
          /\ orders' = orders
          /\ ~isDuplicateKey(orders', m.orderId)
          /\ dbStock' = dbStock
          /\ \/ committed'[t] = readPos[t] + 1
             \/ committed' = committed /\ faults' = faults + 1]_vars

C22_Witness ==
  /\ lastTx.err = "errDBStockNotEnough"
  /\ compensations[lastTx.orderId] >= 2
  /\ ~HasRow(lastTx.orderId)
  /\ redisStock = 1
  /\ committed["retry"] = Len(topic["retry"])


\* C21: no step of the primary or of the retry consumer runs createOrderTx
\* for a message while the clock is before the message's nextRetryAt (in
\* whole seconds); the messages handed off by the forced-failure toggles
\* pass no gate and run no createOrderTx.
C21_BackoffGate ==
  [][\A t \in Consumers :
       (loop[t].pc = "tx" /\ loop'[t].pc = "fetch")
       => /\ clock >= wireOf(t, loop[t].pos).nextRetryAt * TicksPerSecond
          /\ loop'[t].last = "tx"
          /\ ~Forced(topic[t][loop[t].pos])]_vars

C21_Witness ==
  /\ loop["retry"].pc = "fetch"
  /\ loop["retry"].last = "tx"
  /\ wireOf("retry", loop["retry"].pos).nextRetryAt >= 2
  /\ lastTx.orderId = topic["retry"][loop["retry"].pos].orderId
  /\ lastTx.err = "nil"


\* C23: a message of the primary or of the retry topic whose hand-off failed
\* (createOrderTx or a forced failure gave a retryable error and the publish
\* to the retry or to the dead-letter topic failed) is not covered by the
\* committed offset of its reader until a later delivery of it has been
\* handed off.
C23_CommitFollowsHandOff ==
  \A t \in Consumers : \A p \in loop[t].unhanded : committed[t] < p


\* C24: a step of any of the three consumers that fetches a message
\* json.Unmarshal rejects calls CommitMessages for it (the offset advances
\* unless that call fails), creates no order row, changes neither stock nor
\* the order set, publishes to no topic, sends no mail, and leaves the
\* goroutine at the top of its loop with the next message to fetch.
C24_PoisonedPayloadSkipped ==
  [][\A t \in Topics :
       (/\ readPos'[t] = readPos[t] + 1
        /\ ~wireOf(t, readPos[t] + 1).parses)
       => /\ orders' = orders
          /\ dbStock' = dbStock
          /\ redisStock' = redisStock
          /\ orderSet' = orderSet
          /\ compensations' = compensations
          /\ topic' = topic
          /\ loop'[t].pc = "fetch"
          /\ loop'[t].pos = readPos'[t]
          /\ loop'[t].last = "garbage"
          /\ loop'[t].mail = "none"
          /\ loop'[t].commit \in {"ok", "failed"}
          /\ \/ committed'[t] = readPos[t] + 1
             \/ committed' = committed /\ faults' = faults + 1]_vars

C24_Witness ==
  \E t \in Topics :
    /\ loop[t].pos >= 2
    /\ ~wireOf(t, loop[t].pos - 1).parses
    /\ loop[t].last \in {"forced", "alert"}
    /\ committed[t] = loop[t].pos

\* C25: a step of the dead-letter consumer on a message it can parse calls
\* CommitMessages whatever became of the mail (the offset advances unless
\* that call fails), calls SendEmail exactly when smtpCfg.Host is set, and
\* changes no order row, no stock, no order set entry and no topic.
C25_DeadLetterConsumerTerminal ==
  [][(/\ readPos'["dlq"] = readPos["dlq"] + 1
      /\ wireOf("dlq", readPos["dlq"] + 1).parses)
     => /\ orders' = orders
        /\ dbStock' = dbStock
        /\ redisStock' = redisStock
        /\ orderSet' = orderSet
        /\ compensations' = compensations
        /\ topic' = topic
        /\ loop'["dlq"].pc = "fetch"
        /\ loop'["dlq"].last = "alert"
        /\ loop'["dlq"].commit \in {"ok", "failed"}
        /\ \/ committed'["dlq"] = readPos["dlq"] + 1
           \/ committed' = committed /\ faults' = faults + 1
        /\ loop'["dlq"].mail \in {"nil", "smtpError", "incomplete", "skipped"}
        /\ loop'["dlq"].mail = "skipped" <=> ~smtpCfg.Host
        /\ loop'["dlq"].mail = "nil" => smtpCfg.complete]_vars

C25_Witness ==
  /\ loop["dlq"].last = "alert"
  /\ loop["dlq"].mail = "smtpError"
  /\ loop["dlq"].commit = "ok"
  /\ committed["dlq"] = loop["dlq"].pos
  /\ committed["dlq"] = Len(topic["dlq"])


\* C30: a GetByIDWithLogicalExpire call takes at most two steps: its rdb.Get,
\* and, when the envelope is expired, one tryLock, which is possible whether
\* the mutex is held or not and after which the call has returned the shop
\* of the envelope it read; and when the mutex was held that step starts no
\* rebuild and changes nothing in the stores.
C30_LogicalReadNeverBlocks ==
  /\ [](\A r \in ReaderIds :
          /\ rd[r].mode = "LogicalExpire" => rd[r].pc \in {"lelock", "done"}
          /\ (rd[r].pc = "lelock" /\ shopStore.lock)
             => ENABLED LogicalExpireTryLock(r))
  /\ [][\A r \in ReaderIds :
          (rd[r].pc = "lelock" /\ rd'[r] # rd[r])
          => /\ rd'[r].pc = "done"
             /\ rd'[r].ret = rd[r].v
             /\ shopStore.lock => (tasks' = tasks /\ shopStore' = shopStore)]_vars

C30_Witness ==
  /\ \A r \in ReaderIds :
       /\ rd[r].mode = "LogicalExpire"
       /\ rd[r].pc = "done"
       /\ rd[r].expired
       /\ "lock" \in rd[r].touched
       /\ rd[r].ret = 1
  /\ Len(tasks) = 1
  /\ tasks[1].pc = "db"
  /\ shopStore.lock


\* a GetByID call is between its successful tryLock and its unlock
InMutex(r) ==
  rd[r].pc \in {"dcheck", "load", "setl2", "setnull", "setl1u", "unlock"}

\* a rebuild goroutine is between the tryLock that started it and its unlock
Rebuilding(i) == tasks[i].pc # "done"

\* C28: at most one task, GetByID loader or rebuild goroutine, is between
\* acquiring the mutex of the shop and releasing it.
C28_MutexSerializesLoaders ==
  Cardinality({r \in ReaderIds : InMutex(r)})
    + Cardinality({i \in 1..Len(tasks) : Rebuilding(i)}) <= 1


\* the GetByID calls, running or returned, that have read the relational
\* store
StoreReaders == {r \in ReaderIds : rd[r].mode = "GetByID" /\ "db" \in rd[r].touched}

\* C29: of the GetByID calls that meet cold caches for a shop whose row
\* exists, at most one reads the relational store, and every call that has
\* returned has returned the shop.
C29_StampedeCoalesced ==
  /\ Cardinality(StoreReaders) <= 1
  /\ \A r \in ReaderIds :
       (rd[r].mode = "GetByID" /\ rd[r].pc = "done") => rd[r].ret = shopStore.db


\* C26: the step with which a GetByID call that holds the mutex returns is
\* its unlock, and after it the mutex key is gone.
C26_MutexReleasedOnReturn ==
  [][\A r \in ReaderIds :
       (InMutex(r) /\ rd'[r].pc = "done")
       => (rd[r].pc = "unlock" /\ ~shopStore'.lock)]_vars

\* C27: a loader that finds no row writes the empty string to L2 before it
\* returns not-found, and a call that reads the empty string from L2, at the
\* head of the loop or at the double-check, returns not-found without having
\* read the relational store.
C27_EmptySentinel ==
  [][\A r \in ReaderIds :
       /\ (rd[r].pc = "load" /\ shopStore.db = NoShop /\ rd'[r] # rd[r])
          => rd'[r].pc = "setnull"
       /\ (rd[r].pc = "setnull" /\ rd'[r] # rd[r])
          => (shopStore'.l2 = emptyKey /\ rd'[r].ret = NotFound)
       /\ (/\ rd[r].pc \in {"get", "dcheck"}
           /\ shopStore.l2.kind = "empty"
           /\ rd'[r] # rd[r])
          => /\ rd'[r].pc \in {"done", "unlock"}
             /\ rd'[r].ret = NotFound
             /\ "db" \notin rd'[r].touched]_vars


C32_FormatsNeverMixed ==
  \A r \in ReaderIds : "foreign" \notin rd[r].touched


----------------------------------------------------------------------------
\* C33: of two ids NextId returned for one prefix with the same epoch second
\* in the time field, the one whose INCR came later is strictly greater.
C33_IdsIncreaseWithinSecond ==
  \A i, j \in 1..Len(idLog) :
    (i < j /\ idLog[i].err = "nil" /\ idLog[j].err = "nil"
       /\ idLog[i].ts = idLog[j].ts)
      => Gt64(idLog[j].id, idLog[i].id)

C33_Witness ==
  /\ Len(idLog) = 3
  /\ \A i \in 1..3 : idLog[i].err = "nil" /\ idLog[i].ts = One64
  /\ idLog[1].caller = 1 /\ idLog[2].caller = 2 /\ idLog[3].caller = 1
  /\ idLog[3].count = <<0, 0, 0, 3>>


----------------------------------------------------------------------------
\* C34: the counter stored under a day's key is at most 2^32 - 1 in every
\* state, the state after a NextId that reported sequence overflow included.
C34_CounterBound ==
  \A d \in Dates : ~Gt64(idKeys[d], maxSequence)


----------------------------------------------------------------------------
\* C35: compensateRedis runs at most once for each reservation the
\* admission script accepted.
C35_CompensationAtMostOnce ==
  \A o \in OrderIds : compensations[o] <= 1


----------------------------------------------------------------------------
\* C36: the ephemeral stock counter of the voucher is between 0 and its
\* initial value, and the counter plus the size of the order set is at
\* most the initial value.
C36_EphemeralStockInRange ==
  /\ redisStock >= 0
  /\ redisStock <= initStock
  /\ redisStock + Cardinality(orderSet) <= initStock


----------------------------------------------------------------------------
\* C37: the stored stock of the voucher plus the number of its order rows
\* equals the initial stored stock in every state; a step inserts a row
\* exactly when it decrements the stock, one row and one unit; and a
\* consumer step on a message whose orderId already has a row changes
\* neither.
C37_PersistentConservation ==
  /\ [](dbStock + BagCardinality(orders) = initStock)
  /\ [][/\ (orders' # orders) <=> (dbStock' # dbStock)
        /\ (orders' # orders)
             => /\ dbStock' = dbStock - 1
                /\ \E row \in BagToSet(orders') :
                     orders' = orders (+) SetToBag({row})
        /\ \A t \in {"primary", "retry"} :
             (Consumes(t) /\ HasRow(Fetched(t).orderId))
               => (orders' = orders /\ dbStock' = dbStock)]_vars

C37_Witness ==
  /\ initStock = 2
  /\ dbStock = 0
  /\ BagCardinality(orders) = 2
  /\ lastTx.hadRow
  /\ lastTx.err = "nil"


----------------------------------------------------------------------------
\* C38: a message that a commit of its reader has passed has an outcome: an
\* order row for its orderId, its publication to the retry topic with the
\* next retry count, a publication to the dead-letter topic, or a
\* compensation; in particular a message whose hand-off failed is not
\* passed by a later commit without one.
C38_NoReservationDropped ==
  \A t \in {"primary", "retry"} : \A p \in 1..committed[t] :
    LET m == topic[t][p] IN
    \/ HasRow(m.orderId)
    \/ \E i \in 1..Len(topic["retry"]) :
         /\ topic["retry"][i].orderId = m.orderId
         /\ topic["retry"][i].retryCount = m.retryCount + 1
    \/ DlqPubs(m.orderId) >= 1
    \/ compensations[m.orderId] >= 1


----------------------------------------------------------------------------
\* C39: when the unlock of a GetByID call or of a rebuild goroutine deletes
\* the mutex key, the key is the one that task's own tryLock created, never
\* one created since by another task.
C39_OnlyHolderUnlocks ==
  [][/\ \A r \in ReaderIds :
          (rd[r].pc = "unlock" /\ rd'[r].pc = "done" /\ shopStore.lock)
            => shopStore.holder = r
     /\ \A i \in 1..Len(tasks) :
          (tasks[i].pc = "unlock" /\ tasks'[i].pc = "done" /\ shopStore.lock)
            => shopStore.holder = taskHolder(i)]_vars


----------------------------------------------------------------------------
\* C40: every call of GetByID that has started eventually returns.
C40_GetByIDTerminates ==
  \A r \in ReaderIds : (rd[r].pc \notin {"idle", "done"}) ~> (rd[r].pc = "done")

=============================================================================
